---- MODULE Spec2Model ----
(***************************************************************************)
(* Model of the build-operations facade of jenkins-mcp                      *)
(* (src/mcp_server/libs/jenkins_api.py, class JenkinsApi).                  *)
(*                                                                          *)
(* The remote Jenkins server is the environment: it holds one job with one  *)
(* build whose status and console text change between the facade's remote   *)
(* calls, and every remote call may fail with an exception.                 *)
(*                                                                          *)
(* Texts are sequences of tokens; the token "\n" is the line terminator.    *)
(* Exception messages are the set of substrings the code looks for in the   *)
(* lower-cased str(e).                                                      *)
(***************************************************************************)
EXTENDS Integers, Sequences, FiniteSets, TLC

VARIABLES job, build, console, actions, w, twin, m, e, jc, bp, cb, tr, ea, mn, ro

vars == <<job, build, console, actions, w, twin, m, e, jc, bp, cb, tr, ea, mn, ro>>

----------------------------------------------------------------------------
(* Bounds of the model *)

MaxTimeout == 3

MaxPoll == 4

MaxDelay == 2

MaxOversleep == 1

MaxConsoleLen == 4

MaxFromLine == 4

MaxCalls == 2

MaxLogLen == 3

MaxWindow == 3

MaxBuilds == 2

MaxCallers == 2

\* The longest actions list of a build.
MaxActions == 3

\* The longest list of jobs of the server.
MaxJobs == 2

\* The number of tool invocations that can run at the same time.
MaxThreads == 2

----------------------------------------------------------------------------
(* Values shared by all operations *)

\* Python None for a build result / an absent return value.
None == "None"

\* build_number=None is modelled as 0 (build numbers are positive).
NoBuildNumber == 0

Results == {"SUCCESS", "FAILURE", "ABORTED"}

Durations == {0, 7}

BuildUrl == "http://jenkins/job/j/1/"

\* The build status as get_build_info reports it.
RunningBuild == [result |-> None, building |-> TRUE, duration |-> 0, url |-> BuildUrl]

\* The job as get_job_info reports it: lastBuild = 0 stands for "lastBuild": None.
JobInfos == {[lastBuild |-> 0, nextBuildNumber |-> 1], [lastBuild |-> 1, nextBuildNumber |-> 2]}

\* What a remote call can raise: jenkins.JenkinsException or any other
\* Exception, with the substrings of its lower-cased message.
Exceptions ==
    { [cls |-> "JenkinsException", msg |-> {"job", "does not exist"}],
      [cls |-> "JenkinsException", msg |-> {"does not exist"}],
      [cls |-> "JenkinsException", msg |-> {"not found"}],
      [cls |-> "JenkinsException", msg |-> {"connection", "timeout"}],
      [cls |-> "JenkinsException", msg |-> {"timeout"}],
      [cls |-> "JenkinsException", msg |-> {"connection", "not found"}],
      [cls |-> "JenkinsException", msg |-> {}],
      [cls |-> "Exception", msg |-> {"connection"}],
      [cls |-> "Exception", msg |-> {}] }

NoException == [cls |-> "none", msg |-> {}]

\* The response of one remote call: a value or a raised exception.
Responses == {[kind |-> "ok", exc |-> NoException]} \cup {[kind |-> "exc", exc |-> x] : x \in Exceptions}

NoResponse == [kind |-> "none", exc |-> NoException]

NoValue == [build_number |-> 0, result |-> None, duration |-> 0, url |-> ""]

NoOutcome == [kind |-> "none", err |-> "", msg |-> "", value |-> NoValue]

Raise(err, msg) == [kind |-> "error", err |-> err, msg |-> msg, value |-> NoValue]

Return(value) == [kind |-> "return", err |-> "", msg |-> "", value |-> value]

RECURSIVE SumSeq(_)
SumSeq(s) == IF s = <<>> THEN 0 ELSE Head(s) + SumSeq(Tail(s))

\* str.splitlines() from position i on, cur being the line read so far: a
\* terminator ends a line, and a text that ends with a terminator has no
\* empty last line.
RECURSIVE SplitFrom(_, _, _)
SplitFrom(text, i, cur) ==
    IF i > Len(text) THEN (IF cur = <<>> THEN <<>> ELSE <<cur>>)
    ELSE IF text[i] = "\n" THEN <<cur>> \o SplitFrom(text, i + 1, <<>>)
    ELSE SplitFrom(text, i + 1, Append(cur, text[i]))

splitlines(text) == SplitFrom(text, 1, <<>>)

\* "\n".join(lines)
RECURSIVE join(_)
join(lines) ==
    IF lines = <<>> THEN <<>>
    ELSE IF Len(lines) = 1 THEN lines[1]
    ELSE lines[1] \o <<"\n">> \o join(Tail(lines))

IsPrefix(s, t) == Len(s) <= Len(t) /\ SubSeq(t, 1, Len(s)) = s

----------------------------------------------------------------------------
(* wait_for_build *)

WaitIdle ==
    [pc |-> "idle", timeout_arg |-> 0, poll_arg |-> 0, bn_arg |-> 0,
     timeout |-> 0, poll_interval |-> 0, build_number |-> 0,
     now |-> 0, start_time |-> 0, job_fetches |-> 0, fetches |-> 0, sleeps |-> <<>>,
     call_time |-> 0, sleep_time |-> 0,
     resolve_resp |-> NoResponse, job_info |-> [lastBuild |-> 0],
     last_resp |-> NoResponse, outcome |-> NoOutcome]

\* if poll_interval > timeout: poll_interval = timeout
poll_interval_unclamped(poll_interval, timeout) == poll_interval

poll_interval_clamped(poll_interval, timeout) ==
    IF poll_interval > timeout THEN timeout ELSE poll_interval

\* start_time = time.time(), taken after the build number is resolved.
start_time_before_resolve(t_enter, t_resolved) == t_enter

loop_start_time(t_enter, t_resolved) == t_resolved

\* elapsed = time.time() - start_time
elapsed_by_sleeps(r) == SumSeq(r.sleeps)

elapsed(r) == r.now - r.start_time

\* if result is not None
result_is_success_only(result) == result = "SUCCESS"

result_present(result) == result # None

\* job_info.get("lastBuild") and job_info["lastBuild"]["number"]
last_build_or_next(job_info) ==
    IF job_info.lastBuild # 0 THEN job_info.lastBuild ELSE job_info.nextBuildNumber

first_build_number(job_info) == IF job_info.lastBuild # 0 THEN 1 ELSE 0

last_build_number(job_info) == job_info.lastBuild

\* The inner handler around get_build_info in the loop.
build_not_found_strict(exc) == "does not exist" \in exc.msg

build_not_found_message(exc) == "does not exist" \in exc.msg \/ "not found" \in exc.msg

\* The outer handlers of wait_for_build (except clauses in order).
wait_outer_error(exc) ==
    IF exc.cls = "JenkinsException"
    THEN IF "does not exist" \in exc.msg THEN Raise("JenkinsJobNotFoundError", "does not exist")
         ELSE IF "connection" \in exc.msg \/ "timeout" \in exc.msg
              THEN Raise("JenkinsConnectionError", "Connection error")
              ELSE Raise("JenkinsApiError", "Jenkins error")
    ELSE Raise("JenkinsApiError", "Unexpected error")

\* What an exception of get_build_info in the loop becomes.
wait_fetch_error(exc) ==
    IF exc.cls = "JenkinsException" /\ build_not_found_message(exc)
    THEN Raise("JenkinsBuildNotFoundError", "not found")
    ELSE wait_outer_error(exc)

WaitFail(r, outcome) == [r EXCEPT !.pc = "done", !.outcome = outcome]

\* The validation of timeout and poll_interval: the message of the ValueError
\* it raises, "" when it raises none.
wait_arguments_error_timeout_only(timeout, poll_interval) ==
    IF timeout <= 0 THEN "timeout must be positive" ELSE ""

wait_arguments_error(timeout, poll_interval) ==
    IF timeout <= 0 THEN "timeout must be positive"
    ELSE IF poll_interval <= 0 THEN "poll_interval must be positive"
    ELSE ""

\* Argument validation, clamping and the branch on build_number.
WaitEnter(timeout, poll_interval, build_number) ==
    LET r == [WaitIdle EXCEPT !.timeout_arg = timeout, !.poll_arg = poll_interval,
                              !.bn_arg = build_number]
    IN  IF wait_arguments_error(timeout, poll_interval) # ""
        THEN WaitFail(r, Raise("ValueError", wait_arguments_error(timeout, poll_interval)))
        ELSE LET r1 == [r EXCEPT !.timeout = timeout,
                                 !.poll_interval = poll_interval_clamped(poll_interval, timeout)]
             IN  IF build_number = NoBuildNumber
                 THEN [r1 EXCEPT !.pc = "resolve"]
                 ELSE [r1 EXCEPT !.pc = "check", !.build_number = build_number,
                                 !.start_time = loop_start_time(r1.now, r1.now)]

\* get_job_info for the latest build, taking d time units.
WaitResolve(r, resp, job_info, d) ==
    LET r1 == [r EXCEPT !.now = @ + d, !.resolve_resp = resp, !.job_fetches = @ + 1,
                        !.job_info = IF resp.kind = "ok"
                                     THEN [lastBuild |-> job_info.lastBuild] ELSE @]
    IN  IF resp.kind = "exc" THEN WaitFail(r1, wait_outer_error(resp.exc))
        ELSE IF last_build_number(job_info) # 0
             THEN [r1 EXCEPT !.pc = "check", !.build_number = last_build_number(job_info),
                             !.start_time = loop_start_time(r.now, r1.now)]
             ELSE WaitFail(r1, Raise("JenkinsBuildNotFoundError", "No builds found for job"))

\* The deadline check with a strict comparison.
WaitCheckStrict(r) ==
    IF elapsed(r) > r.timeout
    THEN WaitFail(r, Raise("JenkinsApiError", "Timeout waiting for build"))
    ELSE [r EXCEPT !.pc = "fetch"]

\* Top of the loop: the deadline check.
WaitCheck(r) ==
    IF elapsed(r) >= r.timeout
    THEN WaitFail(r, Raise("JenkinsApiError", "Timeout waiting for build"))
    ELSE [r EXCEPT !.pc = "fetch"]

\* get_build_info in the loop, taking d time units, and the branch on result.
WaitFetch(r, resp, build_info, d) ==
    LET r1 == [r EXCEPT !.now = @ + d, !.call_time = @ + d, !.fetches = @ + 1,
                        !.last_resp = resp]
    IN  IF resp.kind = "exc" THEN WaitFail(r1, wait_fetch_error(resp.exc))
        ELSE IF result_present(build_info.result)
             THEN WaitFail(r1, Return([build_number |-> r1.build_number,
                                       result |-> build_info.result,
                                       duration |-> build_info.duration,
                                       url |-> build_info.url]))
             ELSE [r1 EXCEPT !.pc = "sleep"]

\* time.sleep(poll_interval), which may oversleep by x; sleeps records the
\* argument of each time.sleep call.
WaitSleep(r, x) ==
    [r EXCEPT !.now = @ + r.poll_interval + x, !.sleep_time = @ + r.poll_interval + x,
              !.sleeps = Append(@, r.poll_interval), !.pc = "check"]

\* The same call made with poll_interval = timeout when poll_interval > timeout.
TwinPoll(timeout, poll_interval) == IF poll_interval > timeout THEN timeout ELSE poll_interval

\* Apply a step to the twin run while it is at the same place as the run.
TwinStep(next) == IF twin.pc = w.pc THEN next ELSE twin

wait_for_build_enter(timeout, poll_interval, build_number) ==
    /\ w.pc = "idle"
    /\ w' = WaitEnter(timeout, poll_interval, build_number)
    /\ twin' = WaitEnter(timeout, TwinPoll(timeout, poll_interval), build_number)
    /\ UNCHANGED <<job, build, console, m, e, actions, jc, bp, cb, tr, ea, mn, ro>>

wait_for_build_resolve(resp, d) ==
    /\ w.pc = "resolve"
    /\ w' = WaitResolve(w, resp, job, d)
    /\ twin' = TwinStep(WaitResolve(twin, resp, job, d))
    /\ UNCHANGED <<job, build, console, m, e, actions, jc, bp, cb, tr, ea, mn, ro>>

wait_for_build_check ==
    /\ w.pc = "check"
    /\ w' = WaitCheck(w)
    /\ twin' = TwinStep(WaitCheck(twin))
    /\ UNCHANGED <<job, build, console, m, e, actions, jc, bp, cb, tr, ea, mn, ro>>

wait_for_build_fetch(resp, d) ==
    /\ w.pc = "fetch"
    /\ w' = WaitFetch(w, resp, build, d)
    /\ twin' = TwinStep(WaitFetch(twin, resp, build, d))
    /\ UNCHANGED <<job, build, console, m, e, actions, jc, bp, cb, tr, ea, mn, ro>>

wait_for_build_sleep(x) ==
    /\ w.pc = "sleep"
    /\ w' = WaitSleep(w, x)
    /\ twin' = TwinStep(WaitSleep(twin, x))
    /\ UNCHANGED <<job, build, console, m, e, actions, jc, bp, cb, tr, ea, mn, ro>>

----------------------------------------------------------------------------
(* monitor_build *)

\* cursor, chained, delivered and calls are the caller's side of the cursor
\* protocol: the next_line last returned, whether every call so far passed it
\* as from_line, and the lines handed out so far.  remote_calls lists the
\* remote calls of the current call of monitor_build.
MonitorIdle ==
    [pc |-> "idle", from_line |-> 0, bn_arg |-> 0, build_number |-> 0,
     result |-> None, building |-> FALSE, output_lines |-> <<>>,
     remote_calls |-> <<>>, resolve_resp |-> NoResponse, job_info |-> [lastBuild |-> 0],
     outcome |-> NoOutcome,
     cursor |-> 0, chained |-> TRUE, delivered |-> <<>>, calls |-> 0]

\* if from_line >= total_lines: [] else lines[from_line:]
lines_from_one_based(lines, from_line) ==
    IF from_line >= Len(lines) THEN <<>>
    ELSE IF from_line = 0 THEN lines ELSE SubSeq(lines, from_line, Len(lines))

lines_from(lines, from_line) ==
    IF from_line >= Len(lines) THEN <<>> ELSE SubSeq(lines, from_line + 1, Len(lines))

\* next_line = total_lines
next_line_after_output(total_lines, from_line, returned) == from_line + returned

next_line_of(total_lines, from_line, returned) == total_lines

\* The handler around get_job_info when build_number is None.
job_not_found_message(exc) == "does not exist" \in exc.msg

\* The outer handlers of monitor_build (except clauses in order).
monitor_outer_error(exc) ==
    IF exc.cls = "JenkinsException"
    THEN IF "does not exist" \in exc.msg
         THEN IF "job" \in exc.msg THEN Raise("JenkinsJobNotFoundError", "does not exist")
              ELSE Raise("JenkinsBuildNotFoundError", "not found")
         ELSE IF "connection" \in exc.msg \/ "timeout" \in exc.msg
              THEN Raise("JenkinsConnectionError", "Connection error")
              ELSE Raise("JenkinsApiError", "Jenkins error")
    ELSE Raise("JenkinsApiError", "Unexpected error")

MonitorFail(r, outcome) == [r EXCEPT !.pc = "done", !.outcome = outcome]

\* Validation of from_line and the branch on build_number.
MonitorEnter(r, from_line, build_number) ==
    LET follows == r.chained /\ from_line = r.cursor
        r0 == [r EXCEPT !.from_line = from_line, !.bn_arg = build_number,
                        !.build_number = 0, !.result = None, !.building = FALSE,
                        !.output_lines = <<>>, !.remote_calls = <<>>, !.outcome = NoOutcome,
                        !.resolve_resp = NoResponse, !.job_info = [lastBuild |-> 0],
                        !.calls = @ + 1, !.chained = follows,
                        !.delivered = IF follows THEN @ ELSE <<>>]
    IN  IF from_line < 0 THEN MonitorFail(r0, Raise("ValueError", "from_line must be non-negative"))
        ELSE IF build_number = NoBuildNumber THEN [r0 EXCEPT !.pc = "resolve"]
        ELSE [r0 EXCEPT !.pc = "status", !.build_number = build_number]

\* get_job_info for the latest build.
MonitorResolve(r0, resp, job_info) ==
    LET r == [r0 EXCEPT !.remote_calls = Append(@, "get_job_info"), !.resolve_resp = resp,
                        !.job_info = IF resp.kind = "ok"
                                     THEN [lastBuild |-> job_info.lastBuild] ELSE @] IN
    IF resp.kind = "exc"
    THEN IF resp.exc.cls = "JenkinsException" /\ job_not_found_message(resp.exc)
         THEN MonitorFail(r, Raise("JenkinsJobNotFoundError", "does not exist"))
         ELSE MonitorFail(r, monitor_outer_error(resp.exc))
    ELSE IF last_build_number(job_info) # 0
         THEN [r EXCEPT !.pc = "status", !.build_number = last_build_number(job_info)]
         ELSE MonitorFail(r, Raise("JenkinsBuildNotFoundError", "No builds found for job"))

\* get_build_info: result and building of the status fetched.
MonitorStatus(r0, resp, build_info) ==
    LET r == [r0 EXCEPT !.remote_calls = Append(@, "get_build_info")] IN
    IF resp.kind = "exc"
    THEN IF resp.exc.cls = "JenkinsException" /\ build_not_found_message(resp.exc)
         THEN MonitorFail(r, Raise("JenkinsBuildNotFoundError", "not found"))
         ELSE MonitorFail(r, monitor_outer_error(resp.exc))
    ELSE [r EXCEPT !.pc = "console", !.result = build_info.result,
                   !.building = build_info.building]

\* get_build_console_output, the split into lines and the slice from from_line.
MonitorConsole(r0, resp, text) ==
    LET r == [r0 EXCEPT !.remote_calls = Append(@, "get_build_console_output")] IN
    IF resp.kind = "exc" THEN MonitorFail(r, monitor_outer_error(resp.exc))
    ELSE LET lines == splitlines(text)
             total_lines == Len(lines)
             output_lines == lines_from(lines, r.from_line)
             next_line == next_line_of(total_lines, r.from_line, Len(output_lines))
         IN  [r EXCEPT !.pc = "done",
                       !.output_lines = output_lines,
                       !.outcome = Return([build_number |-> r.build_number,
                                           output |-> join(output_lines),
                                           next_line |-> next_line,
                                           building |-> r.building,
                                           result |-> r.result]),
                       !.cursor = next_line,
                       !.delivered = IF r.chained THEN @ \o output_lines ELSE <<>>]

monitor_build_enter(from_line, build_number) ==
    /\ m.pc \in {"idle", "done"}
    /\ m.calls < MaxCalls
    /\ m' = MonitorEnter(m, from_line, build_number)
    /\ UNCHANGED <<job, build, console, w, twin, e, actions, jc, bp, cb, tr, ea, mn, ro>>

monitor_build_resolve(resp) ==
    /\ m.pc = "resolve"
    /\ m' = MonitorResolve(m, resp, job)
    /\ UNCHANGED <<job, build, console, w, twin, e, actions, jc, bp, cb, tr, ea, mn, ro>>

monitor_build_status(resp) ==
    /\ m.pc = "status"
    /\ m' = MonitorStatus(m, resp, build)
    /\ UNCHANGED <<job, build, console, w, twin, e, actions, jc, bp, cb, tr, ea, mn, ro>>

monitor_build_console(resp) ==
    /\ m.pc = "console"
    /\ m' = MonitorConsole(m, resp, console)
    /\ UNCHANGED <<job, build, console, w, twin, e, actions, jc, bp, cb, tr, ea, mn, ro>>

----------------------------------------------------------------------------
(* get_job_console and get_build_errors *)

\* DEFAULT_ERROR_PATTERNS, in dictionary order.
DEFAULT_ERROR_PATTERNS ==
    << [category |-> "error",
        patterns |-> <<"(?i)\\berror\\b", "\\[ERROR\\]">>],
       [category |-> "exception",
        patterns |-> <<"(?i)\\bexception\\b", "(?i)traceback \\(most recent call last\\)",
                       "(?i)^\\s+at\\s+[\\w.$]+\\([\\w.]+:\\d+\\)">>],
       [category |-> "failure",
        patterns |-> <<"(?i)\\bfailed\\b", "(?i)\\bfailure\\b">>],
       [category |-> "jenkins",
        patterns |-> <<"Build step '.+' marked build as failure", "Finished: FAILURE",
                       "Finished: ABORTED", "(?i)fatal:">>] >>

\* The words of the log vocabulary in which a regular expression finds a match.
Triggers(pattern) ==
    CASE pattern = "(?i)\\berror\\b" -> {"error", "Jenkins error", "Unexpected error"}
      [] pattern = "(?i)\\bexception\\b" -> {"exception"}
      [] pattern = "(?i)\\bfailure\\b" -> {"failure"}
      [] pattern = "(?i)fatal:" -> {"fatal:"}
      [] pattern = "ok" -> {"ok"}
      [] pattern = "error" -> {"error", "Jenkins error", "Unexpected error"}
      [] OTHER -> {}

\* re.compile raises re.error for a malformed expression.
compiles(pattern) == pattern # "(invalid["

\* compiled_pattern.search(line)
search(pattern, line) == \E i \in DOMAIN line : line[i] \in Triggers(pattern)

\* console_output.startswith(prefix) and (marker in console_output)
startswith(text, prefix) == Len(text) >= 1 /\ text[1] = prefix

contains(text, marker) == \E i \in DOMAIN text : text[i] = marker

\* lines[-tail:] and lines[:head]
lines_after(lines, tail) ==
    IF tail >= Len(lines) THEN <<>> ELSE SubSeq(lines, tail + 1, Len(lines))

last_lines(lines, tail) ==
    IF tail >= Len(lines) THEN lines ELSE SubSeq(lines, Len(lines) - tail + 1, Len(lines))

first_lines(lines, head) == IF head >= Len(lines) THEN lines ELSE SubSeq(lines, 1, head)

\* The validation of tail and head at the head of get_job_console: the message
\* of the ValueError it raises, "" when it raises none.
window_error_exclusive_only(tail, head, tail_given, head_given) ==
    IF tail_given /\ head_given THEN "tail and head are mutually exclusive" ELSE ""

window_error(tail, head, tail_given, head_given) ==
    IF tail_given /\ head_given THEN "tail and head are mutually exclusive"
    ELSE IF tail_given /\ tail <= 0 THEN "tail must be a positive integer"
    ELSE IF head_given /\ head <= 0 THEN "head must be a positive integer"
    ELSE ""

\* get_job_console: tail_given = FALSE stands for tail=None, head_given = FALSE
\* for head=None.  Every failure after the validation comes back as a string.
get_job_console(build_number, tail, head, tail_given, head_given, resp_job, job_info, resp_console, text) ==
    IF window_error(tail, head, tail_given, head_given) # ""
    THEN Raise("ValueError", window_error(tail, head, tail_given, head_given))
    ELSE IF build_number = NoBuildNumber /\ resp_job.kind = "exc"
         THEN IF resp_job.exc.cls = "JenkinsException"
              THEN Return(<<"Jenkins error", "str(e)">>)
              ELSE Return(<<"Unexpected error", "str(e)">>)
    ELSE IF build_number = NoBuildNumber /\ last_build_number(job_info) = 0
         THEN Return(<<"No builds found for job">>)
    ELSE IF resp_console.kind = "exc"
         THEN IF resp_console.exc.cls = "JenkinsException"
              THEN Return(<<"Jenkins error", "str(e)">>)
              ELSE Return(<<"Unexpected error", "str(e)">>)
    ELSE IF tail_given THEN Return(join(last_lines(splitlines(text), tail)))
    ELSE IF head_given THEN Return(join(first_lines(splitlines(text), head)))
    ELSE Return(text)

\* The remote calls get_job_console issues, in order.
get_job_console_calls(build_number, tail, head, tail_given, head_given, resp_job, job_info) ==
    IF window_error(tail, head, tail_given, head_given) # "" THEN <<>>
    ELSE IF build_number # NoBuildNumber THEN <<"get_build_console_output">>
    ELSE IF resp_job.kind = "exc" \/ last_build_number(job_info) = 0 THEN <<"get_job_info">>
    ELSE <<"get_job_info", "get_build_console_output">>

ConsoleIdle ==
    [pc |-> "idle", bn_arg |-> 0, tail |-> 0, head |-> 0, tail_given |-> FALSE, head_given |-> FALSE,
     resp_job |-> NoResponse, resp_console |-> NoResponse, job_info |-> [lastBuild |-> 0],
     text |-> <<>>, build_number |-> 0, remote_calls |-> <<>>, outcome |-> NoOutcome]

\* One call of get_job_console with the responses of its remote calls; the
\* record keeps the arguments, what each remote call that was made answered,
\* and the outcome.
GetJobConsole(build_number, tail, head, tail_given, head_given, resp_job, job_info, resp_console, text) ==
    LET calls == get_job_console_calls(build_number, tail, head, tail_given, head_given,
                                       resp_job, job_info)
        asked_job == \E i \in DOMAIN calls : calls[i] = "get_job_info"
        asked_console == \E i \in DOMAIN calls : calls[i] = "get_build_console_output"
    IN  [ConsoleIdle EXCEPT
            !.pc = "done", !.bn_arg = build_number,
            !.tail = tail, !.head = head, !.tail_given = tail_given, !.head_given = head_given,
            !.resp_job = IF asked_job THEN resp_job ELSE @,
            !.job_info = IF asked_job /\ resp_job.kind = "ok"
                         THEN [lastBuild |-> job_info.lastBuild] ELSE @,
            !.resp_console = IF asked_console THEN resp_console ELSE @,
            !.text = IF asked_console /\ resp_console.kind = "ok" THEN text ELSE @,
            !.build_number = IF ~asked_console THEN @
                             ELSE IF build_number # NoBuildNumber THEN build_number
                             ELSE last_build_number(job_info),
            !.remote_calls = calls,
            !.outcome = get_job_console(build_number, tail, head, tail_given, head_given,
                                        resp_job, job_info, resp_console, text)]

get_job_console_call(build_number, tail, head, tail_given, head_given, resp_job, resp_console) ==
    /\ jc.pc = "idle"
    /\ jc' = GetJobConsole(build_number, tail, head, tail_given, head_given,
                          resp_job, job, resp_console, console)
    /\ UNCHANGED <<job, build, console, actions, w, twin, m, e, bp, cb, tr, ea, mn, ro>>

\* pattern_dict: a non-empty patterns list alone under "custom", else the defaults.
pattern_dict_custom_first(patterns) ==
    IF patterns # <<>> THEN << [category |-> "custom", patterns |-> patterns] >> \o DEFAULT_ERROR_PATTERNS
    ELSE DEFAULT_ERROR_PATTERNS

pattern_dict(patterns) ==
    IF patterns # <<>> THEN << [category |-> "custom", patterns |-> patterns] >>
    ELSE DEFAULT_ERROR_PATTERNS

\* The patterns of a list that compile, in order.
RECURSIVE compile_list(_)
compile_list(pattern_list) ==
    IF pattern_list = <<>> THEN <<>>
    ELSE IF compiles(Head(pattern_list))
         THEN <<Head(pattern_list)>> \o compile_list(Tail(pattern_list))
         ELSE compile_list(Tail(pattern_list))

compiled_patterns(dict) ==
    [c \in DOMAIN dict |-> [category |-> dict[c].category, patterns |-> compile_list(dict[c].patterns)]]

\* The inner for loop: index of the first pattern of the list, from k on,
\* that matches the line; 0 when none does.
RECURSIVE first_match(_, _, _)
first_match(compiled_list, line, k) ==
    IF k > Len(compiled_list) THEN 0
    ELSE IF search(compiled_list[k], line) THEN k
    ELSE first_match(compiled_list, line, k + 1)

\* The category loop without its final break: every category with a match.
RECURSIVE classify_line_every_category(_, _, _)
classify_line_every_category(compiled, line, c) ==
    IF c > Len(compiled) THEN [hits |-> <<>>, evaluated |-> <<>>]
    ELSE LET k == first_match(compiled[c].patterns, line, 1)
             rest == classify_line_every_category(compiled, line, c + 1)
         IN  IF k # 0
             THEN [hits |-> <<compiled[c].category>> \o rest.hits,
                   evaluated |-> SubSeq(compiled[c].patterns, 1, k) \o rest.evaluated]
             ELSE [hits |-> rest.hits, evaluated |-> compiled[c].patterns \o rest.evaluated]

\* The category loop for one line, from category c on: the categories the
\* line is recorded under and the patterns searched, in order.
RECURSIVE classify_line(_, _, _)
classify_line(compiled, line, c) ==
    IF c > Len(compiled) THEN [hits |-> <<>>, evaluated |-> <<>>]
    ELSE LET k == first_match(compiled[c].patterns, line, 1)
         IN  IF k # 0
             THEN [hits |-> <<compiled[c].category>>,
                   evaluated |-> SubSeq(compiled[c].patterns, 1, k)]
             ELSE LET rest == classify_line(compiled, line, c + 1)
                  IN  [hits |-> rest.hits, evaluated |-> compiled[c].patterns \o rest.evaluated]

\* summary[category] = summary.get(category, 0) + 1
summary_set_one(summary, category) ==
    IF category \in DOMAIN summary THEN [summary EXCEPT ![category] = 1]
    ELSE summary @@ (category :> 1)

summary_add(summary, category) ==
    IF category \in DOMAIN summary THEN [summary EXCEPT ![category] = @ + 1]
    ELSE summary @@ (category :> 1)

\* The entries and the summary that the hits of one line add.
RECURSIVE record_hits(_, _, _, _)
record_hits(acc, hits, line_number, line) ==
    IF hits = <<>> THEN acc
    ELSE record_hits([acc EXCEPT !.errors = Append(@, [line_number |-> line_number,
                                                        line |-> line,
                                                        category |-> Head(hits)]),
                                 !.summary = summary_add(@, Head(hits))],
                     Tail(hits), line_number, line)

\* The loop over enumerate(lines, start=1), from line n on.
RECURSIVE scan_lines(_, _, _, _)
scan_lines(acc, compiled, lines, n) ==
    IF n > Len(lines) THEN acc
    ELSE LET found == classify_line(compiled, lines[n], 1)
             acc1 == record_hits(acc, found.hits, n, lines[n])
         IN  scan_lines([acc1 EXCEPT !.evaluated = Append(@, found.evaluated)],
                        compiled, lines, n + 1)

ErrorsIdle ==
    [pc |-> "idle", bn_arg |-> 0, patterns |-> <<>>, patterns_given |-> FALSE,
     resp_job |-> NoResponse, resp_console |-> NoResponse,
     job_info |-> [lastBuild |-> 0], build_number |-> 0, remote_calls |-> <<>>,
     evaluated |-> <<>>, outcome |-> NoOutcome]

\* get_build_errors: the console through get_job_console, the check of the
\* text for get_job_console's error strings, pattern selection, compilation
\* and the scan.  patterns_given = FALSE stands for patterns=None.
GetBuildErrors(build_number, patterns, patterns_given, resp_job, job_info, resp_console, text) ==
    LET fetch == GetJobConsole(build_number, 0, 0, FALSE, FALSE,
                               resp_job, job_info, resp_console, text)
        r == [ErrorsIdle EXCEPT !.pc = "done", !.bn_arg = build_number,
                                !.patterns = patterns, !.patterns_given = patterns_given,
                                !.resp_job = fetch.resp_job,
                                !.resp_console = fetch.resp_console,
                                !.job_info = fetch.job_info,
                                !.build_number = fetch.build_number,
                                !.remote_calls = fetch.remote_calls]
        console_output == fetch.outcome.value
    IN  IF startswith(console_output, "No builds found for job")
        THEN [r EXCEPT !.outcome = Raise("JenkinsBuildNotFoundError", "No builds found for job")]
        ELSE IF contains(console_output, "Jenkins error") \/ contains(console_output, "Unexpected error")
        THEN [r EXCEPT !.outcome = Raise("JenkinsApiError", "console_output")]
        ELSE LET compiled == compiled_patterns(pattern_dict(IF patterns_given THEN patterns ELSE <<>>))
                 acc == scan_lines([errors |-> <<>>, summary |-> <<>>, evaluated |-> <<>>],
                                   compiled, splitlines(console_output), 1)
             IN  [r EXCEPT !.evaluated = acc.evaluated,
                           !.outcome = Return([errors |-> acc.errors, summary |-> acc.summary])]

get_build_errors(build_number, patterns, patterns_given, resp_job, resp_console) ==
    /\ e.pc = "idle"
    /\ e' = GetBuildErrors(build_number, patterns, patterns_given, resp_job, job, resp_console, console)
    /\ UNCHANGED <<job, build, console, w, twin, m, actions, jc, bp, cb, tr, ea, mn, ro>>

----------------------------------------------------------------------------
(* get_build_parameters *)

\* An entry of a build's actions list and an entry of an action's parameters
\* list; null = TRUE stands for a None entry.  A missing "_class" is the tag
\* "", a missing "parameters" the empty list, a missing "name" the name None.
NullAction == [null |-> TRUE, class |-> "", parameters |-> <<>>]

NullParameter == [null |-> TRUE, name |-> None, value |-> None]

\* "ParametersAction" in action_class
is_parameters_action(action_class) ==
    action_class \in {"hudson.model.ParametersAction", "org.acme.ExtraParametersAction"}

\* The loop over params_list, from entry j on.
RECURSIVE parameters_with_value(_, _)
parameters_with_value(params_list, j) ==
    IF j > Len(params_list) THEN <<>>
    ELSE LET param == params_list[j]
             rest == parameters_with_value(params_list, j + 1)
         IN  IF param.null THEN rest
             ELSE IF param.name # None /\ param.value # None
                  THEN <<[name |-> param.name, value |-> param.value]>> \o rest
                  ELSE rest

RECURSIVE parameters_of(_, _)
parameters_of(params_list, j) ==
    IF j > Len(params_list) THEN <<>>
    ELSE LET param == params_list[j]
             rest == parameters_of(params_list, j + 1)
         IN  IF param.null THEN rest
             ELSE IF param.name # None
                  THEN <<[name |-> param.name, value |-> param.value]>> \o rest
                  ELSE rest

\* The loop over actions without its break: every parameters action adds its
\* parameters.
RECURSIVE scan_actions_all(_, _)
scan_actions_all(action_list, i) ==
    IF i > Len(action_list) THEN [parameters |-> <<>>, scanned |-> Len(action_list)]
    ELSE LET rest == scan_actions_all(action_list, i + 1)
         IN  IF ~action_list[i].null /\ is_parameters_action(action_list[i].class)
             THEN [parameters |-> parameters_of(action_list[i].parameters, 1) \o rest.parameters,
                   scanned |-> rest.scanned]
             ELSE rest

\* The loop over actions, from entry i on: the parameters collected and the
\* number of entries of the list the loop looked at.
RECURSIVE scan_actions(_, _)
scan_actions(action_list, i) ==
    IF i > Len(action_list) THEN [parameters |-> <<>>, scanned |-> Len(action_list)]
    ELSE IF action_list[i].null THEN scan_actions(action_list, i + 1)
    ELSE IF is_parameters_action(action_list[i].class)
         THEN [parameters |-> parameters_of(action_list[i].parameters, 1), scanned |-> i]
         ELSE scan_actions(action_list, i + 1)

\* The outer handlers of get_build_parameters (except clauses in order).
parameters_outer_error(exc) ==
    IF exc.cls = "JenkinsException"
    THEN IF "does not exist" \in exc.msg
         THEN IF "job" \in exc.msg THEN Raise("JenkinsJobNotFoundError", "does not exist")
              ELSE Raise("JenkinsBuildNotFoundError", "not found")
         ELSE IF "connection" \in exc.msg \/ "timeout" \in exc.msg
              THEN Raise("JenkinsConnectionError", "Connection error")
              ELSE Raise("JenkinsApiError", "Jenkins error")
    ELSE Raise("JenkinsApiError", "Unexpected error")

ParametersIdle ==
    [pc |-> "idle", bn_arg |-> 0, build_number |-> 0, remote_calls |-> <<>>,
     resolve_resp |-> NoResponse, job_info |-> [lastBuild |-> 0],
     action_list |-> <<>>, scanned |-> 0, outcome |-> NoOutcome]

ParametersFail(r, outcome) == [r EXCEPT !.pc = "done", !.outcome = outcome]

\* The branch on build_number.
ParametersEnter(build_number) ==
    IF build_number = NoBuildNumber
    THEN [ParametersIdle EXCEPT !.pc = "resolve", !.bn_arg = build_number]
    ELSE [ParametersIdle EXCEPT !.pc = "info", !.bn_arg = build_number,
                                !.build_number = build_number]

\* get_job_info for the latest build.
ParametersResolve(r0, resp, job_info) ==
    LET r == [r0 EXCEPT !.remote_calls = Append(@, "get_job_info"), !.resolve_resp = resp,
                        !.job_info = IF resp.kind = "ok"
                                     THEN [lastBuild |-> job_info.lastBuild] ELSE @]
    IN  IF resp.kind = "exc"
        THEN IF resp.exc.cls = "JenkinsException" /\ job_not_found_message(resp.exc)
             THEN ParametersFail(r, Raise("JenkinsJobNotFoundError", "does not exist"))
             ELSE ParametersFail(r, parameters_outer_error(resp.exc))
        ELSE IF last_build_number(job_info) # 0
             THEN [r EXCEPT !.pc = "info", !.build_number = last_build_number(job_info)]
             ELSE ParametersFail(r, Raise("JenkinsBuildNotFoundError", "No builds found for job"))

\* get_build_info and the scan of its actions.
ParametersInfo(r0, resp, action_list) ==
    LET r == [r0 EXCEPT !.remote_calls = Append(@, "get_build_info")]
    IN  IF resp.kind = "exc"
        THEN IF resp.exc.cls = "JenkinsException" /\ build_not_found_message(resp.exc)
             THEN ParametersFail(r, Raise("JenkinsBuildNotFoundError", "not found"))
             ELSE ParametersFail(r, parameters_outer_error(resp.exc))
        ELSE LET found == scan_actions(action_list, 1)
             IN  [r EXCEPT !.pc = "done", !.action_list = action_list,
                           !.scanned = found.scanned,
                           !.outcome = Return([build_number |-> r.build_number,
                                               parameters |-> found.parameters])]

get_build_parameters_enter(build_number) ==
    /\ bp.pc = "idle"
    /\ bp' = ParametersEnter(build_number)
    /\ UNCHANGED <<job, build, console, actions, w, twin, m, e, jc, cb, tr, ea, mn, ro>>

get_build_parameters_resolve(resp) ==
    /\ bp.pc = "resolve"
    /\ bp' = ParametersResolve(bp, resp, job)
    /\ UNCHANGED <<job, build, console, actions, w, twin, m, e, jc, cb, tr, ea, mn, ro>>

get_build_parameters_info(resp) ==
    /\ bp.pc = "info"
    /\ bp' = ParametersInfo(bp, resp, actions)
    /\ UNCHANGED <<job, build, console, actions, w, twin, m, e, jc, cb, tr, ea, mn, ro>>

----------------------------------------------------------------------------
(* cancel_build *)

\* The outer handlers of cancel_build (except clauses in order).
cancel_outer_error(exc) ==
    IF exc.cls = "JenkinsException"
    THEN IF "does not exist" \in exc.msg
         THEN IF "job" \in exc.msg THEN Raise("JenkinsJobNotFoundError", "does not exist")
              ELSE Raise("JenkinsBuildNotFoundError", "not found")
         ELSE IF "connection" \in exc.msg \/ "timeout" \in exc.msg
              THEN Raise("JenkinsConnectionError", "Connection error")
              ELSE Raise("JenkinsApiError", "Jenkins error")
    ELSE Raise("JenkinsApiError", "Unexpected error")

CancelIdle ==
    [pc |-> "idle", bn_arg |-> 0, build_number |-> 0, remote_calls |-> <<>>,
     resolve_resp |-> NoResponse, job_info |-> [lastBuild |-> 0],
     result |-> None, outcome |-> NoOutcome]

CancelFail(r, outcome) == [r EXCEPT !.pc = "done", !.outcome = outcome]

\* The branch on build_number.
CancelEnter(build_number) ==
    IF build_number = NoBuildNumber
    THEN [CancelIdle EXCEPT !.pc = "resolve", !.bn_arg = build_number]
    ELSE [CancelIdle EXCEPT !.pc = "status", !.bn_arg = build_number,
                            !.build_number = build_number]

\* get_job_info for the latest build.
CancelResolve(r0, resp, job_info) ==
    LET r == [r0 EXCEPT !.remote_calls = Append(@, "get_job_info"), !.resolve_resp = resp,
                        !.job_info = IF resp.kind = "ok"
                                     THEN [lastBuild |-> job_info.lastBuild] ELSE @]
    IN  IF resp.kind = "exc"
        THEN IF resp.exc.cls = "JenkinsException" /\ job_not_found_message(resp.exc)
             THEN CancelFail(r, Raise("JenkinsJobNotFoundError", "does not exist"))
             ELSE CancelFail(r, cancel_outer_error(resp.exc))
        ELSE IF last_build_number(job_info) # 0
             THEN [r EXCEPT !.pc = "status", !.build_number = last_build_number(job_info)]
             ELSE CancelFail(r, Raise("JenkinsBuildNotFoundError", "No builds found for job"))

\* get_build_info without the branch on its result.
CancelStatusUnchecked(r0, resp, build_info) ==
    LET r == [r0 EXCEPT !.remote_calls = Append(@, "get_build_info")]
    IN  IF resp.kind = "exc"
        THEN IF resp.exc.cls = "JenkinsException" /\ build_not_found_message(resp.exc)
             THEN CancelFail(r, Raise("JenkinsBuildNotFoundError", "not found"))
             ELSE CancelFail(r, cancel_outer_error(resp.exc))
        ELSE [r EXCEPT !.pc = "stop", !.result = build_info.result]

\* get_build_info whose result is not looked at again before stop_build.
CancelStatusForgetful(r0, resp, build_info) ==
    LET r == [r0 EXCEPT !.remote_calls = Append(@, "get_build_info")]
    IN  IF resp.kind = "exc"
        THEN [r EXCEPT !.pc = "stop"]
        ELSE IF build_info.result # None
             THEN [r EXCEPT !.pc = "done", !.result = build_info.result,
                            !.outcome = Return([success |-> FALSE,
                                                build_number |-> r.build_number,
                                                message |-> "Build already completed with result",
                                                result |-> build_info.result])]
             ELSE [r EXCEPT !.pc = "stop"]

\* get_build_info and the branch on its result: a finished build is reported
\* as such and no abort is sent.
CancelStatus(r0, resp, build_info) ==
    LET r == [r0 EXCEPT !.remote_calls = Append(@, "get_build_info")]
    IN  IF resp.kind = "exc"
        THEN IF resp.exc.cls = "JenkinsException" /\ build_not_found_message(resp.exc)
             THEN CancelFail(r, Raise("JenkinsBuildNotFoundError", "not found"))
             ELSE CancelFail(r, cancel_outer_error(resp.exc))
        ELSE IF build_info.result # None
             THEN [r EXCEPT !.pc = "done", !.result = build_info.result,
                            !.outcome = Return([success |-> FALSE,
                                                build_number |-> r.build_number,
                                                message |-> "Build already completed with result",
                                                result |-> build_info.result])]
             ELSE [r EXCEPT !.pc = "stop"]

\* stop_build
CancelStop(r0, resp) ==
    LET r == [r0 EXCEPT !.remote_calls = Append(@, "stop_build")]
    IN  IF resp.kind = "exc" THEN CancelFail(r, cancel_outer_error(resp.exc))
        ELSE [r EXCEPT !.pc = "done",
                       !.outcome = Return([success |-> TRUE,
                                           build_number |-> r.build_number,
                                           message |-> "Build cancelled successfully",
                                           result |-> None])]

cancel_build_enter(build_number) ==
    /\ cb.pc = "idle"
    /\ cb' = CancelEnter(build_number)
    /\ UNCHANGED <<job, build, console, actions, w, twin, m, e, jc, bp, tr, ea, mn, ro>>

cancel_build_resolve(resp) ==
    /\ cb.pc = "resolve"
    /\ cb' = CancelResolve(cb, resp, job)
    /\ UNCHANGED <<job, build, console, actions, w, twin, m, e, jc, bp, tr, ea, mn, ro>>

cancel_build_status(resp) ==
    /\ cb.pc = "status"
    /\ cb' = CancelStatus(cb, resp, build)
    /\ UNCHANGED <<job, build, console, actions, w, twin, m, e, jc, bp, tr, ea, mn, ro>>

\* The abort request reaches the server when stop_build does not raise: a
\* build that is still running ends as ABORTED.
cancel_build_stop(resp) ==
    /\ cb.pc = "stop"
    /\ cb' = CancelStop(cb, resp)
    /\ build' = IF resp.kind = "ok" /\ build.result = None
                THEN [build EXCEPT !.result = "ABORTED", !.building = FALSE]
                ELSE build
    /\ UNCHANGED <<job, console, actions, w, twin, m, e, jc, bp, tr, ea, mn, ro>>

----------------------------------------------------------------------------
(* run_job and rebuild *)

Callers == 1 .. MaxCallers

\* The parameters passed to build_job: with = FALSE is build_job(job_name).
NoParameters == [with |-> FALSE, parameters |-> <<>>]

\* One call of run_job or rebuild.  triggered is the number the server gave
\* the build that this call's build_job started (0 before that).
TriggerCallIdle ==
    [pc |-> "idle", op |-> "", source |-> 0, passed |-> NoParameters,
     triggered |-> 0, remote_calls |-> <<>>, outcome |-> NoOutcome]

TriggerIdle == [i \in Callers |-> TriggerCallIdle]

\* The number the server gives the next build of the job.
next_build_number(job_info) == job_info.nextBuildNumber

reported_next_build_number(job_info) == job_info.nextBuildNumber

\* next_build_number - 1
triggered_build_number(job_info) == job_info.nextBuildNumber - 1

\* The loop keeping the first value of a repeated name.
RECURSIVE parameters_dict_first_wins(_, _, _)
parameters_dict_first_wins(params_list, j, acc) ==
    IF j > Len(params_list) THEN acc
    ELSE LET param == params_list[j]
         IN  IF param.null \/ param.name = None \/ param.name \in DOMAIN acc
             THEN parameters_dict_first_wins(params_list, j + 1, acc)
             ELSE parameters_dict_first_wins(params_list, j + 1,
                                  [x \in DOMAIN acc \cup {param.name} |->
                                      IF x = param.name THEN param.value ELSE acc[x]])

\* parameters[param_name] = param_value over params_list, from entry j on.
RECURSIVE parameters_dict(_, _, _)
parameters_dict(params_list, j, acc) ==
    IF j > Len(params_list) THEN acc
    ELSE LET param == params_list[j]
         IN  IF param.null \/ param.name = None THEN parameters_dict(params_list, j + 1, acc)
             ELSE parameters_dict(params_list, j + 1,
                                  [x \in DOMAIN acc \cup {param.name} |->
                                      IF x = param.name THEN param.value ELSE acc[x]])

\* The loop over actions in rebuild, from entry i on.
RECURSIVE rebuild_parameters(_, _)
rebuild_parameters(action_list, i) ==
    IF i > Len(action_list) THEN <<>>
    ELSE IF action_list[i].null THEN rebuild_parameters(action_list, i + 1)
    ELSE IF is_parameters_action(action_list[i].class)
         THEN parameters_dict(action_list[i].parameters, 1, <<>>)
         ELSE rebuild_parameters(action_list, i + 1)

\* if parameters: build_job(job_name, parameters) else: build_job(job_name)
build_job_arguments(parameters) ==
    IF DOMAIN parameters # {} THEN [with |-> TRUE, parameters |-> parameters] ELSE NoParameters

\* The handlers of run_job: every failure is returned as a string.
run_job_error(exc) ==
    IF exc.cls = "JenkinsException" THEN Return(<<"Jenkins error running job", "str(e)">>)
    ELSE Return(<<"Unexpected error running job", "str(e)">>)

\* The outer handlers of rebuild (except clauses in order).
rebuild_outer_error(exc) ==
    IF exc.cls = "JenkinsException"
    THEN IF "does not exist" \in exc.msg
         THEN IF "job" \in exc.msg THEN Raise("JenkinsJobNotFoundError", "does not exist")
              ELSE Raise("JenkinsBuildNotFoundError", "not found")
         ELSE IF "connection" \in exc.msg \/ "timeout" \in exc.msg
              THEN Raise("JenkinsConnectionError", "Connection error")
              ELSE Raise("JenkinsApiError", "Jenkins error")
    ELSE Raise("JenkinsApiError", "Unexpected error")

TriggerFail(r, outcome) == [r EXCEPT !.pc = "done", !.outcome = outcome]

TriggerError(r, exc) ==
    TriggerFail(r, IF r.op = "run_job" THEN run_job_error(exc) ELSE rebuild_outer_error(exc))

RunJobEnter(parameters) ==
    [TriggerCallIdle EXCEPT !.pc = "trigger", !.op = "run_job",
                            !.passed = build_job_arguments(parameters)]

RebuildEnter(source_build_number) ==
    [TriggerCallIdle EXCEPT !.pc = "info", !.op = "rebuild", !.source = source_build_number]

\* get_build_info of the source build in rebuild and the scan of its actions.
RebuildInfo(r0, resp, action_list) ==
    LET r == [r0 EXCEPT !.remote_calls = Append(@, "get_build_info")]
    IN  IF resp.kind = "exc"
        THEN IF resp.exc.cls = "JenkinsException" /\ build_not_found_message(resp.exc)
             THEN TriggerFail(r, Raise("JenkinsBuildNotFoundError", "not found"))
             ELSE TriggerFail(r, rebuild_outer_error(resp.exc))
        ELSE [r EXCEPT !.pc = "trigger",
                       !.passed = build_job_arguments(rebuild_parameters(action_list, 1))]

\* build_job: when it does not raise, the server has started a build with the
\* job's next build number.
TriggerBuild(r0, resp, job_info) ==
    LET r == [r0 EXCEPT !.remote_calls = Append(@, "build_job")]
    IN  IF resp.kind = "exc" THEN TriggerError(r, resp.exc)
        ELSE [r EXCEPT !.pc = "readback", !.triggered = next_build_number(job_info)]

\* get_job_info after the trigger and the result with the build number.
TriggerReadback(r0, resp, job_info) ==
    LET r == [r0 EXCEPT !.remote_calls = Append(@, "get_job_info")]
    IN  IF resp.kind = "exc" THEN TriggerError(r, resp.exc)
        ELSE IF r.op = "run_job"
             THEN TriggerFail(r, Return(<<"Job started successfully. Build number:",
                                          triggered_build_number(job_info)>>))
             ELSE TriggerFail(r, Return([success |-> TRUE,
                                         source_build_number |-> r.source,
                                         new_build_number |-> triggered_build_number(job_info)]))

run_job_enter(i, parameters) ==
    /\ tr[i].pc = "idle"
    /\ tr' = [tr EXCEPT ![i] = RunJobEnter(parameters)]
    /\ UNCHANGED <<job, build, console, actions, w, twin, m, e, jc, bp, cb, ea, mn, ro>>

rebuild_enter(i, source_build_number) ==
    /\ tr[i].pc = "idle"
    /\ tr' = [tr EXCEPT ![i] = RebuildEnter(source_build_number)]
    /\ UNCHANGED <<job, build, console, actions, w, twin, m, e, jc, bp, cb, ea, mn, ro>>

rebuild_info(i, resp) ==
    /\ tr[i].pc = "info"
    /\ tr' = [tr EXCEPT ![i] = RebuildInfo(tr[i], resp, actions)]
    /\ UNCHANGED <<job, build, console, actions, w, twin, m, e, jc, bp, cb, ea, mn, ro>>

trigger_build_job(i, resp) ==
    /\ tr[i].pc = "trigger"
    /\ tr' = [tr EXCEPT ![i] = TriggerBuild(tr[i], resp, job)]
    /\ job' = IF resp.kind = "ok"
              THEN [lastBuild |-> next_build_number(job),
                    nextBuildNumber |-> next_build_number(job) + 1]
              ELSE job
    /\ UNCHANGED <<build, console, actions, w, twin, m, e, jc, bp, cb, ea, mn, ro>>

trigger_readback(i, resp) ==
    /\ tr[i].pc = "readback"
    /\ tr' = [tr EXCEPT ![i] = TriggerReadback(tr[i], resp, job)]
    /\ UNCHANGED <<job, build, console, actions, w, twin, m, e, jc, bp, cb, ea, mn, ro>>

----------------------------------------------------------------------------
(* enable_all_jobs *)

\* Job names and folder paths are sequences of characters.  folder=None is
\* NoFolder; a folder that is given can be the empty string.
NoFolder == [given |-> FALSE, path |-> <<>>]

Folder(path) == [given |-> TRUE, path |-> path]

\* if folder:
folder_is_set(folder) == folder.given /\ folder.path # <<>>

\* str.lstrip("/") and str.rstrip("/")
RECURSIVE lstrip(_)
lstrip(s) == IF s # <<>> /\ Head(s) = "/" THEN lstrip(Tail(s)) ELSE s

RECURSIVE rstrip(_)
rstrip(s) == IF s # <<>> /\ s[Len(s)] = "/" THEN rstrip(SubSeq(s, 1, Len(s) - 1)) ELSE s

\* folder.strip("/")
normalized_folder(folder) == rstrip(lstrip(folder.path))

\* job_fullname.startswith(prefix)
name_startswith(s, prefix) == IsPrefix(prefix, s)

endswith(s, suffix) ==
    Len(suffix) <= Len(s) /\ SubSeq(s, Len(s) - Len(suffix) + 1, Len(s)) = suffix

has_slash(s) == \E i \in DOMAIN s : s[i] = "/"

\* job.get("fullname", job.get("name", ""))
job_fullname(job_entry) == IF job_entry.has_fullname THEN job_entry.fullname ELSE job_entry.name

\* The filter with a prefix test that does not end the folder name.
in_folder_by_prefix(fullname, folder, recursive) ==
    IF folder_is_set(folder)
    THEN IF recursive
         THEN name_startswith(fullname, normalized_folder(folder))
         ELSE /\ name_startswith(fullname, normalized_folder(folder) \o <<"/">>)
              /\ ~has_slash(SubSeq(fullname, Len(normalized_folder(folder)) + 2, Len(fullname)))
    ELSE IF recursive THEN TRUE ELSE ~has_slash(fullname)

\* The filter of a job by folder and recursive.
in_folder(fullname, folder, recursive) ==
    IF folder_is_set(folder)
    THEN IF recursive
         THEN \/ name_startswith(fullname, normalized_folder(folder) \o <<"/">>)
              \/ fullname = normalized_folder(folder)
         ELSE /\ name_startswith(fullname, normalized_folder(folder) \o <<"/">>)
              /\ ~has_slash(SubSeq(fullname, Len(normalized_folder(folder)) + 2, Len(fullname)))
    ELSE IF recursive THEN TRUE ELSE ~has_slash(fullname)

\* The positions in all_jobs of the jobs to process, in the order of all_jobs.
jobs_to_process(all_jobs, folder, recursive) ==
    SelectSeq([i \in 1 .. Len(all_jobs) |-> i],
              LAMBDA i : in_folder(job_fullname(all_jobs[i]), folder, recursive))

\* Colors are sequences of tokens: "blue_disabled" is <<"blue", "_disabled">>.
is_disabled(job_color) == endswith(job_color, <<"_disabled">>) \/ job_color = <<"disabled">>

\* The loop over jobs_to_process from its k-th job on: enable_job for each
\* disabled job.  A jenkins.JenkinsException is logged and the loop goes on;
\* any other exception leaves the loop.  acc has the positions of the jobs
\* enable_job was called for and of those it succeeded for.
RECURSIVE enable_jobs(_, _, _, _, _)
enable_jobs(all_jobs, to_process, k, resps, acc) ==
    IF k > Len(to_process) THEN acc
    ELSE LET i == to_process[k]
         IN  IF ~is_disabled(all_jobs[i].color)
             THEN enable_jobs(all_jobs, to_process, k + 1, resps, acc)
             ELSE LET tried == [acc EXCEPT !.attempted = Append(@, i)]
                  IN  IF resps[i].kind = "ok"
                      THEN enable_jobs(all_jobs, to_process, k + 1, resps,
                                       [tried EXCEPT !.enabled = Append(@, i)])
                      ELSE IF resps[i].exc.cls = "JenkinsException"
                           THEN enable_jobs(all_jobs, to_process, k + 1, resps, tried)
                           ELSE [tried EXCEPT !.exc = resps[i].exc]

\* The outer handlers of enable_all_jobs (except clauses in order).
enable_all_outer_error(exc) ==
    IF exc.cls = "JenkinsException"
    THEN IF "connection" \in exc.msg \/ "timeout" \in exc.msg
         THEN Raise("JenkinsConnectionError", "Connection error")
         ELSE Raise("JenkinsApiError", "Jenkins error")
    ELSE Raise("JenkinsApiError", "Unexpected error")

\* The color the server shows for a job after it was enabled.
enabled_color(job_color) ==
    IF job_color = <<"disabled">> THEN <<"notbuilt">>
    ELSE IF endswith(job_color, <<"_disabled">>) THEN SubSeq(job_color, 1, Len(job_color) - 1)
    ELSE job_color

\* One call of enable_all_jobs.  jobs is the list of jobs of the server;
\* all_jobs is the list the call fetched, resps what enable_job answered for
\* each position of it.
EnableIdle ==
    [pc |-> "idle", jobs |-> <<>>, folder |-> NoFolder, recursive |-> TRUE,
     fetched |-> FALSE, all_jobs |-> <<>>, resps |-> <<>>, attempted |-> <<>>, enabled |-> <<>>,
     remote_calls |-> <<>>, outcome |-> NoOutcome]

EnableEnter(r, folder, recursive) ==
    [EnableIdle EXCEPT !.pc = "jobs", !.jobs = r.jobs, !.folder = folder,
                       !.recursive = recursive]

\* get_all_jobs, the filter, the loop and the result.
EnableRun(r0, resp, resps) ==
    LET r == [r0 EXCEPT !.remote_calls = Append(@, "get_all_jobs")]
    IN  IF resp.kind = "exc"
        THEN [r EXCEPT !.pc = "done", !.outcome = enable_all_outer_error(resp.exc)]
        ELSE LET all_jobs == r.jobs
                 ran == enable_jobs(all_jobs, jobs_to_process(all_jobs, r.folder, r.recursive),
                                    1, resps,
                                    [attempted |-> <<>>, enabled |-> <<>>, exc |-> NoException])
                 enabled_jobs == [k \in 1 .. Len(ran.enabled) |->
                                     job_fullname(all_jobs[ran.enabled[k]])]
             IN  [r EXCEPT
                    !.pc = "done", !.fetched = TRUE, !.all_jobs = all_jobs, !.resps = resps,
                    !.attempted = ran.attempted, !.enabled = ran.enabled,
                    !.remote_calls = @ \o [k \in 1 .. Len(ran.attempted) |-> "enable_job"],
                    !.jobs = [i \in 1 .. Len(all_jobs) |->
                                 IF \E k \in DOMAIN ran.enabled : ran.enabled[k] = i
                                 THEN [all_jobs[i] EXCEPT !.color = enabled_color(@)]
                                 ELSE all_jobs[i]],
                    !.outcome = IF ran.exc # NoException THEN enable_all_outer_error(ran.exc)
                                ELSE Return([count |-> Len(enabled_jobs),
                                             enabled_jobs |-> enabled_jobs])]

enable_all_jobs_enter(folder, recursive) ==
    /\ ea.pc = "idle"
    /\ ea' = EnableEnter(ea, folder, recursive)
    /\ UNCHANGED <<job, build, console, actions, w, twin, m, e, jc, bp, cb, tr, mn, ro>>

enable_all_jobs_run(resp, resps) ==
    /\ ea.pc = "jobs"
    /\ ea' = EnableRun(ea, resp, resps)
    /\ UNCHANGED <<job, build, console, actions, w, twin, m, e, jc, bp, cb, tr, mn, ro>>

----------------------------------------------------------------------------
(* The tool functions of main.py *)

\* (src/mcp_server/main.py).  The facade is the environment of a tool
\* function: a call of a facade operation returns a value or raises an error
\* of one of the classes below.  jenkins_api = 0 is the global set to None;
\* the instances JenkinsApi() creates are numbered from 1.

Threads == 1 .. MaxThreads

Tools ==
    { "get-version", "job-info", "run-job", "job-console", "get-jobs", "wait-for-build",
      "get-build-errors", "enable-job", "disable-job", "rebuild", "get-build-parameters",
      "monitor-build", "cancel-build", "enable-all-jobs" }

ErrorClasses ==
    { "ValueError", "JenkinsBuildNotFoundError", "JenkinsJobNotFoundError",
      "JenkinsConnectionError", "JenkinsApiError", "TypeError", "Exception" }

\* isinstance(e, cls) for the classes above: the Jenkins errors are
\* subclasses of JenkinsApiError, and all are subclasses of Exception.
is_instance(err, cls) ==
    \/ cls = "Exception"
    \/ err = cls
    \/ /\ cls = "JenkinsApiError"
       /\ err \in {"JenkinsBuildNotFoundError", "JenkinsJobNotFoundError",
                   "JenkinsConnectionError"}

Handler(cls, prefix) == [cls |-> cls, prefix |-> prefix]

BuildHandlers ==
    << Handler("JenkinsBuildNotFoundError", "Build not found:"),
       Handler("JenkinsJobNotFoundError", "Job not found:"),
       Handler("JenkinsConnectionError", "Connection error:"),
       Handler("JenkinsApiError", "Jenkins API error:") >>

JobHandlers ==
    << Handler("JenkinsJobNotFoundError", "Job not found:"),
       Handler("JenkinsConnectionError", "Connection error:"),
       Handler("JenkinsApiError", "Jenkins API error:") >>

ListHandlers ==
    << Handler("JenkinsConnectionError", "Connection error:"),
       Handler("JenkinsApiError", "Jenkins API error:") >>

InvalidHandler == << Handler("ValueError", "Invalid parameters:") >>

\* The except clauses of a tool function without its last one.
handlers_without_last(tool) ==
    CASE tool = "get-version" -> <<>>
      [] tool = "job-info" -> JobHandlers
      [] tool = "run-job" -> <<>>
      [] tool = "job-console" -> InvalidHandler
      [] tool = "get-jobs" -> ListHandlers
      [] tool = "wait-for-build" -> InvalidHandler \o BuildHandlers
      [] tool = "get-build-errors" -> BuildHandlers
      [] tool = "enable-job" -> JobHandlers
      [] tool = "disable-job" -> JobHandlers
      [] tool = "rebuild" -> BuildHandlers
      [] tool = "get-build-parameters" -> BuildHandlers
      [] tool = "monitor-build" -> InvalidHandler \o BuildHandlers
      [] tool = "cancel-build" -> BuildHandlers
      [] tool = "enable-all-jobs" -> ListHandlers

\* The except clauses of a tool function, in order.
handlers(tool) ==
    CASE tool = "get-version" -> << Handler("Exception", "Error getting Jenkins version:") >>
      [] tool = "job-info" -> JobHandlers \o << Handler("Exception", "Failed to get job info") >>
      [] tool = "run-job" -> << Handler("Exception", "Failed to run job") >>
      [] tool = "job-console" ->
             InvalidHandler \o << Handler("Exception", "Failed to get console output") >>
      [] tool = "get-jobs" -> ListHandlers \o << Handler("Exception", "Failed to get jobs list") >>
      [] tool = "wait-for-build" ->
             InvalidHandler \o BuildHandlers \o << Handler("Exception", "Failed to wait for build") >>
      [] tool = "get-build-errors" ->
             BuildHandlers \o << Handler("Exception", "Failed to get build errors") >>
      [] tool = "enable-job" -> JobHandlers \o << Handler("Exception", "Failed to enable job") >>
      [] tool = "disable-job" -> JobHandlers \o << Handler("Exception", "Failed to disable job") >>
      [] tool = "rebuild" -> BuildHandlers \o << Handler("Exception", "Failed to rebuild job") >>
      [] tool = "get-build-parameters" ->
             BuildHandlers \o << Handler("Exception", "Failed to get build parameters") >>
      [] tool = "monitor-build" ->
             InvalidHandler \o BuildHandlers \o << Handler("Exception", "Failed to monitor build") >>
      [] tool = "cancel-build" -> BuildHandlers \o << Handler("Exception", "Failed to cancel build") >>
      [] tool = "enable-all-jobs" ->
             ListHandlers \o << Handler("Exception", "Failed to enable all jobs") >>

\* What a tool function gives its caller: a string, here its fixed part and
\* the value or error it was made from, or an exception that leaves it.
NoResult == [kind |-> "none", prefix |-> "", detail |-> ""]

String(prefix, detail) == [kind |-> "str", prefix |-> prefix, detail |-> detail]

Escapes(err) == [kind |-> "exception", prefix |-> "", detail |-> err]

\* The first except clause that matches the error, from clause k on.
RECURSIVE handle(_, _, _)
handle(clauses, k, err) ==
    IF k > Len(clauses) THEN Escapes(err)
    ELSE IF is_instance(err, clauses[k].cls) THEN String(clauses[k].prefix, err)
    ELSE handle(clauses, k + 1, err)

render_error(tool, err) == handle(handlers(tool), 1, err)

\* The string of a value the facade returned: run-job and job-console return
\* the facade's string, get-version formats it, the others json.dumps it,
\* which raises TypeError for a value that JSON cannot hold.
render_value(tool, serializable) ==
    IF tool \in {"run-job", "job-console"} THEN String("", "result")
    ELSE IF tool = "get-version" THEN String("Jenkins version:", "result")
    ELSE IF serializable THEN String("json", "result")
    ELSE render_error(tool, "TypeError")

\* The JSON texts a caller passes as parameters or patterns, and json.loads
\* of them: ok = FALSE is json.JSONDecodeError.
JsonTexts == {"", "  ", "{bad", "{\"A\": \"1\"}", "{}", "[\"x\"]", "[\"x\", 1]", "[]", "null"}

\* not text.strip()
is_blank(text) == text \in {"", "  "}

Parsed(type, items) == [ok |-> TRUE, type |-> type, items |-> items]

json_loads(text) ==
    CASE text = "{\"A\": \"1\"}" -> Parsed("dict", <<"str">>)
      [] text = "{}" -> Parsed("dict", <<>>)
      [] text = "[\"x\"]" -> Parsed("list", <<"str">>)
      [] text = "[\"x\", 1]" -> Parsed("list", <<"str", "int">>)
      [] text = "[]" -> Parsed("list", <<>>)
      [] text = "null" -> Parsed("NoneType", <<>>)
      [] OTHER -> [ok |-> FALSE, type |-> "", items |-> <<>>]

\* bool(value) of a parsed value
truthy(value) == value.type # "NoneType" /\ value.items # <<>>

takes_json(tool) == tool \in {"run-job", "get-build-errors"}

\* One invocation of a tool function.  api is the instance get_jenkins_api
\* returned, facade_calls the number of calls of a facade operation, passed
\* what the operation got for parameters or patterns.
ToolIdle ==
    [pc |-> "idle", tool |-> "", text |-> "", api |-> 0, facade_calls |-> 0,
     passed |-> "", raised |-> "", result |-> NoResult]

MainIdle == [jenkins_api |-> 0, created |-> 0, th |-> [t \in Threads |-> ToolIdle]]

ToolDone(r, result) == [r EXCEPT !.pc = "done", !.result = result]

ToolRaised(r, err) == [ToolDone(r, render_error(r.tool, err)) EXCEPT !.raised = err]

ToolEnter(tool, text) == [ToolIdle EXCEPT !.pc = "check", !.tool = tool, !.text = text]

\* if jenkins_api is None
ApiCheck(r, jenkins_api) == [r EXCEPT !.pc = IF jenkins_api = 0 THEN "create" ELSE "load"]

\* return jenkins_api
ApiReturn(r, jenkins_api) ==
    [r EXCEPT !.api = jenkins_api, !.pc = IF takes_json(r.tool) THEN "parse" ELSE "call"]

\* The parsing and validation of parameters in run-job and of patterns in
\* get-build-errors.
ToolParse(r) ==
    LET parsed == IF is_blank(r.text)
                  THEN Parsed(IF r.tool = "run-job" THEN "dict" ELSE "list", <<>>)
                  ELSE json_loads(r.text)
        passed == IF truthy(parsed) THEN r.text ELSE "None"
    IN  IF ~parsed.ok
        THEN ToolDone(r, String(IF r.tool = "run-job" THEN "Invalid JSON in parameters:"
                                ELSE "Invalid JSON in patterns:", "JSONDecodeError"))
        ELSE IF r.tool = "run-job" THEN [r EXCEPT !.pc = "call", !.passed = passed]
        ELSE IF parsed.type # "list"
             THEN ToolDone(r, String("patterns must be a JSON array of strings", ""))
        ELSE IF \E i \in DOMAIN parsed.items : parsed.items[i] # "str"
             THEN ToolDone(r, String("patterns[i] must be a string, got", "int"))
        ELSE [r EXCEPT !.pc = "call", !.passed = passed]

\* The call of the facade operation and the string made of what it does.
ToolCall(r0, outcome) ==
    LET r == [r0 EXCEPT !.facade_calls = @ + 1]
    IN  IF outcome.kind = "raise" THEN ToolRaised(r, outcome.err)
        ELSE ToolDone(r, render_value(r.tool, outcome.serializable))

tool_enter(t, tool, text) ==
    /\ mn.th[t].pc = "idle"
    /\ mn' = [mn EXCEPT !.th[t] = ToolEnter(tool, text)]
    /\ UNCHANGED <<job, build, console, actions, w, twin, m, e, jc, bp, cb, tr, ea, ro>>

get_jenkins_api_check(t) ==
    /\ mn.th[t].pc = "check"
    /\ mn' = [mn EXCEPT !.th[t] = ApiCheck(@, mn.jenkins_api)]
    /\ UNCHANGED <<job, build, console, actions, w, twin, m, e, jc, bp, cb, tr, ea, ro>>

\* jenkins_api = JenkinsApi(): a constructor that raises leaves the global
\* as it is, and the error goes to the except clauses of the tool function.
get_jenkins_api_create(t, resp) ==
    /\ mn.th[t].pc = "create"
    /\ mn' = IF resp.kind = "raise"
             THEN [mn EXCEPT !.th[t] = ToolRaised(@, resp.err)]
             ELSE [mn EXCEPT !.created = @ + 1, !.jenkins_api = mn.created + 1,
                             !.th[t].pc = "load"]
    /\ UNCHANGED <<job, build, console, actions, w, twin, m, e, jc, bp, cb, tr, ea, ro>>

get_jenkins_api_return(t) ==
    /\ mn.th[t].pc = "load"
    /\ mn' = [mn EXCEPT !.th[t] = ApiReturn(@, mn.jenkins_api)]
    /\ UNCHANGED <<job, build, console, actions, w, twin, m, e, jc, bp, cb, tr, ea, ro>>

tool_parse(t) ==
    /\ mn.th[t].pc = "parse"
    /\ mn' = [mn EXCEPT !.th[t] = ToolParse(@)]
    /\ UNCHANGED <<job, build, console, actions, w, twin, m, e, jc, bp, cb, tr, ea, ro>>

tool_call(t, outcome) ==
    /\ mn.th[t].pc = "call"
    /\ mn' = [mn EXCEPT !.th[t] = ToolCall(@, outcome)]
    /\ UNCHANGED <<job, build, console, actions, w, twin, m, e, jc, bp, cb, tr, ea, ro>>

----------------------------------------------------------------------------
(* get_job_details and get_all_jobs_list *)

\* One call of get_job_details or get_all_jobs_list; calls counts the calls
\* made so far, remote_calls lists the remote calls of the current one.
ReadIdle == [pc |-> "idle", op |-> "", calls |-> 0, remote_calls |-> <<>>, outcome |-> NoOutcome]

\* The handlers of get_job_details (except clauses in order).
get_job_details_error(exc) ==
    IF exc.cls = "JenkinsException"
    THEN IF "does not exist" \in exc.msg THEN Raise("JenkinsJobNotFoundError", "does not exist")
         ELSE IF "connection" \in exc.msg \/ "timeout" \in exc.msg
              THEN Raise("JenkinsConnectionError", "Connection error")
              ELSE Raise("JenkinsApiError", "Jenkins error")
    ELSE Raise("JenkinsApiError", "Unexpected error")

\* The handlers of get_all_jobs_list (except clauses in order).
get_all_jobs_list_error(exc) ==
    IF exc.cls = "JenkinsException"
    THEN IF "connection" \in exc.msg \/ "timeout" \in exc.msg
         THEN Raise("JenkinsConnectionError", "Connection error")
         ELSE IF "permission" \in exc.msg
              THEN Raise("JenkinsApiError", "Permission error")
              ELSE Raise("JenkinsApiError", "Jenkins error")
    ELSE Raise("JenkinsApiError", "Unexpected error")

\* get_job_details with a remote call that also enables the job.
GetJobDetailsEnabling(calls, resp, job_info) ==
    [pc |-> "done", op |-> "get_job_details", calls |-> calls + 1,
     remote_calls |-> <<"get_job_info", "enable_job">>,
     outcome |-> IF resp.kind = "exc" THEN get_job_details_error(resp.exc)
                 ELSE Return(job_info)]

\* get_job_details: get_job_info and the job information as it came.
GetJobDetails(calls, resp, job_info) ==
    [pc |-> "done", op |-> "get_job_details", calls |-> calls + 1,
     remote_calls |-> <<"get_job_info">>,
     outcome |-> IF resp.kind = "exc" THEN get_job_details_error(resp.exc)
                 ELSE Return(job_info)]

\* get_all_jobs_list: get_all_jobs and the list as it came.
GetAllJobsList(calls, resp, jobs) ==
    [pc |-> "done", op |-> "get_all_jobs_list", calls |-> calls + 1,
     remote_calls |-> <<"get_all_jobs">>,
     outcome |-> IF resp.kind = "exc" THEN get_all_jobs_list_error(resp.exc)
                 ELSE Return(jobs)]

get_job_details(resp) ==
    /\ ro.calls < MaxCalls
    /\ ro' = GetJobDetails(ro.calls, resp, job)
    /\ UNCHANGED <<job, build, console, actions, w, twin, m, e, jc, bp, cb, tr, ea, mn>>

get_all_jobs_list(resp) ==
    /\ ro.calls < MaxCalls
    /\ ro' = GetAllJobsList(ro.calls, resp, ea.jobs)
    /\ UNCHANGED <<job, build, console, actions, w, twin, m, e, jc, bp, cb, tr, ea, mn>>

----------------------------------------------------------------------------
(* The operations that are idle in a specification of another operation *)

OthersIdle ==
    /\ actions = <<>>
    /\ jc = ConsoleIdle
    /\ bp = ParametersIdle
    /\ cb = CancelIdle
    /\ tr = TriggerIdle
    /\ ea = EnableIdle
    /\ mn = MainIdle
    /\ ro = ReadIdle

----------------------------------------------------------------------------
(* The remote server *)

\* The build reaches a terminal result; from then on it is immutable.
BuildCompletes(result, duration) ==
    /\ build.result = None
    /\ build' = [result |-> result, building |-> FALSE, duration |-> duration, url |-> BuildUrl]
    /\ UNCHANGED <<job, console, w, twin, m, e, actions, jc, bp, cb, tr, ea, mn, ro>>

\* The console of a running build grows by a piece of text that leaves the
\* lines already there as they are; the console of a finished build is frozen.
ConsoleGrows(piece) ==
    /\ build.result = None
    /\ Len(console) + Len(piece) <= MaxConsoleLen
    /\ IsPrefix(splitlines(console), splitlines(console \o piece))
    /\ console' = console \o piece
    /\ UNCHANGED <<job, build, w, twin, m, e, actions, jc, bp, cb, tr, ea, mn, ro>>

\* The job starts another build: the last build and the next build number
\* move on by one.
JobStartsBuild ==
    /\ job.lastBuild < MaxBuilds
    /\ job' = [lastBuild |-> job.lastBuild + 1, nextBuildNumber |-> job.nextBuildNumber + 1]
    /\ UNCHANGED <<build, console, actions, w, twin, m, e, jc, bp, cb, tr, ea, mn, ro>>

\* The build writes a word or a line terminator to its log.
ConsoleWrites(token) ==
    /\ e.pc = "idle"
    /\ Len(console) < MaxLogLen
    /\ console' = Append(console, token)
    /\ UNCHANGED <<job, build, w, twin, m, e, actions, jc, bp, cb, tr, ea, mn, ro>>

----------------------------------------------------------------------------
(* Specification of one wait_for_build call against a changing server *)

TimeoutArgs == (0 - 1) .. MaxTimeout

PollArgs == (0 - 1) .. MaxPoll

BuildNumberArgs == {NoBuildNumber, 1}

InitWait ==
    /\ job \in JobInfos
    /\ build = RunningBuild
    /\ console = <<>>
    /\ w = WaitIdle
    /\ twin = WaitIdle
    /\ m = MonitorIdle
    /\ e = ErrorsIdle
    /\ OthersIdle

NextWait ==
    \/ \E t \in TimeoutArgs, p \in PollArgs, b \in BuildNumberArgs : wait_for_build_enter(t, p, b)
    \/ \E resp \in Responses, d \in 0 .. MaxDelay : wait_for_build_resolve(resp, d)
    \/ wait_for_build_check
    \/ \E resp \in Responses, d \in 0 .. MaxDelay : wait_for_build_fetch(resp, d)
    \/ \E x \in 0 .. MaxOversleep : wait_for_build_sleep(x)
    \/ \E r \in Results, du \in Durations : BuildCompletes(r, du)

SpecWait == InitWait /\ [][NextWait]_vars

\* The steps of a wait_for_build call in progress.  The call runs in one
\* thread that is never suspended for ever: every remote call answers or
\* raises and every time.sleep returns.
WaitStep ==
    \/ \E resp \in Responses, d \in 0 .. MaxDelay : wait_for_build_resolve(resp, d)
    \/ wait_for_build_check
    \/ \E resp \in Responses, d \in 0 .. MaxDelay : wait_for_build_fetch(resp, d)
    \/ \E x \in 0 .. MaxOversleep : wait_for_build_sleep(x)

\* SpecWait with a wait_for_build call that keeps running; the build itself
\* need never complete.
SpecWaitFair == SpecWait /\ WF_vars(WaitStep)

----------------------------------------------------------------------------
(* Specification of a caller paging through the console with monitor_build *)

MonitorAlphabet == {"a", "\n"}

Pieces == {<<x>> : x \in MonitorAlphabet} \cup {<<x, y>> : x \in MonitorAlphabet, y \in MonitorAlphabet}

FromLineArgs == (0 - 1) .. MaxFromLine

InitMonitor ==
    /\ job \in JobInfos
    /\ build = RunningBuild
    /\ console = <<>>
    /\ w = WaitIdle
    /\ twin = WaitIdle
    /\ m = MonitorIdle
    /\ e = ErrorsIdle
    /\ OthersIdle

NextMonitor ==
    \/ \E f \in FromLineArgs, b \in BuildNumberArgs : monitor_build_enter(f, b)
    \/ \E resp \in Responses : monitor_build_resolve(resp)
    \/ \E resp \in Responses : monitor_build_status(resp)
    \/ \E resp \in Responses : monitor_build_console(resp)
    \/ \E piece \in Pieces : ConsoleGrows(piece)
    \/ \E r \in Results : BuildCompletes(r, 7)

SpecMonitor == InitMonitor /\ [][NextMonitor]_vars

----------------------------------------------------------------------------
(* Specification of get_build_errors on an arbitrary log *)

LogVocabulary == {"ok", "error", "exception", "failure", "Jenkins error", "No builds found for job", "\n"}

PatternArgs == {<<>>, <<"ok">>, <<"(invalid[", "error">>, <<"error", "ok">>}

\* A remote call succeeds or raises; two exceptions stand for all here.
ErrorsResponses ==
    { [kind |-> "ok", exc |-> NoException],
      [kind |-> "exc", exc |-> [cls |-> "JenkinsException", msg |-> {"job", "does not exist"}]],
      [kind |-> "exc", exc |-> [cls |-> "Exception", msg |-> {}]] }

InitErrors ==
    /\ job \in JobInfos
    /\ build = RunningBuild
    /\ console = <<>>
    /\ w = WaitIdle
    /\ twin = WaitIdle
    /\ m = MonitorIdle
    /\ e = ErrorsIdle
    /\ OthersIdle

NextErrors ==
    \/ \E token \in LogVocabulary : ConsoleWrites(token)
    \/ \E b \in BuildNumberArgs, p \in PatternArgs, g \in BOOLEAN,
          rj \in ErrorsResponses, rc \in ErrorsResponses :
            /\ (~g => p = <<>>)
            /\ get_build_errors(b, p, g, rj, rc)

SpecErrors == InitErrors /\ [][NextErrors]_vars

----------------------------------------------------------------------------
(* Specification of one call of any operation that takes an optional build  *)
(* number, against a job that starts builds meanwhile                       *)

AllIdle ==
    /\ w.pc = "idle" /\ m.pc = "idle" /\ e.pc = "idle"
    /\ jc.pc = "idle" /\ bp.pc = "idle" /\ cb.pc = "idle"

InitFacade ==
    /\ job \in JobInfos
    /\ build = RunningBuild
    /\ console = <<>>
    /\ actions = <<>>
    /\ w = WaitIdle
    /\ twin = WaitIdle
    /\ m = MonitorIdle
    /\ e = ErrorsIdle
    /\ jc = ConsoleIdle
    /\ bp = ParametersIdle
    /\ cb = CancelIdle
    /\ tr = TriggerIdle
    /\ ea = EnableIdle
    /\ mn = MainIdle
    /\ ro = ReadIdle

NextFacade ==
    \/ AllIdle /\ \E to \in TimeoutArgs, po \in PollArgs, b \in BuildNumberArgs :
                      wait_for_build_enter(to, po, b)
    \/ \E resp \in Responses, d \in 0 .. MaxDelay : wait_for_build_resolve(resp, d)
    \/ wait_for_build_check
    \/ \E resp \in Responses, d \in 0 .. MaxDelay : wait_for_build_fetch(resp, d)
    \/ \E x \in 0 .. MaxOversleep : wait_for_build_sleep(x)
    \/ AllIdle /\ \E f \in FromLineArgs, b \in BuildNumberArgs : monitor_build_enter(f, b)
    \/ \E resp \in Responses : monitor_build_resolve(resp)
    \/ \E resp \in Responses : monitor_build_status(resp)
    \/ \E resp \in Responses : monitor_build_console(resp)
    \/ AllIdle /\ \E b \in BuildNumberArgs, resp_job \in Responses, resp_console \in Responses :
                      get_build_errors(b, <<>>, FALSE, resp_job, resp_console)
    \/ AllIdle /\ \E b \in BuildNumberArgs, resp_job \in Responses, resp_console \in Responses :
                      get_job_console_call(b, 0, 0, FALSE, FALSE, resp_job, resp_console)
    \/ AllIdle /\ \E b \in BuildNumberArgs : get_build_parameters_enter(b)
    \/ \E resp \in Responses : get_build_parameters_resolve(resp)
    \/ \E resp \in Responses : get_build_parameters_info(resp)
    \/ AllIdle /\ \E b \in BuildNumberArgs : cancel_build_enter(b)
    \/ \E resp \in Responses : cancel_build_resolve(resp)
    \/ \E resp \in Responses : cancel_build_status(resp)
    \/ \E resp \in Responses : cancel_build_stop(resp)
    \/ JobStartsBuild
    \/ \E r \in Results : BuildCompletes(r, 7)

SpecFacade == InitFacade /\ [][NextFacade]_vars

----------------------------------------------------------------------------
(* Specification of callers that trigger builds of one job with run_job and *)
(* rebuild, each call's remote calls interleaved with the others'           *)

Parameter(name, value) == [null |-> FALSE, name |-> name, value |-> value]

ParametersAction(params_list) ==
    [null |-> FALSE, class |-> "hudson.model.ParametersAction", parameters |-> params_list]

CauseAction == [null |-> FALSE, class |-> "hudson.model.CauseAction", parameters |-> <<>>]

RunJobParameterArgs == {<<>>, ("A" :> "1")}

RebuildActionLists ==
    { <<>>,
      <<CauseAction>>,
      <<NullAction, ParametersAction(<<Parameter("A", "1"), NullParameter, Parameter("B", "2")>>)>> }

InitTrigger ==
    /\ job \in JobInfos
    /\ build = RunningBuild
    /\ console = <<>>
    /\ actions \in RebuildActionLists
    /\ w = WaitIdle
    /\ twin = WaitIdle
    /\ m = MonitorIdle
    /\ e = ErrorsIdle
    /\ jc = ConsoleIdle
    /\ bp = ParametersIdle
    /\ cb = CancelIdle
    /\ tr = TriggerIdle
    /\ ea = EnableIdle
    /\ mn = MainIdle
    /\ ro = ReadIdle

NextTrigger ==
    \/ \E i \in Callers, parameters \in RunJobParameterArgs : run_job_enter(i, parameters)
    \/ \E i \in Callers : rebuild_enter(i, 1)
    \/ \E i \in Callers, resp \in ErrorsResponses : rebuild_info(i, resp)
    \/ \E i \in Callers, resp \in ErrorsResponses : trigger_build_job(i, resp)
    \/ \E i \in Callers, resp \in ErrorsResponses : trigger_readback(i, resp)

SpecTrigger == InitTrigger /\ [][NextTrigger]_vars

----------------------------------------------------------------------------
(* Claims about run_job and rebuild, checked under SpecTrigger *)

\* The call triggered a build and returned its success result.
TriggerSucceeded(r) ==
    /\ r.pc = "done"
    /\ r.outcome.kind = "return"
    /\ r.triggered # 0
    /\ r.op = "run_job" => r.outcome.value[1] = "Job started successfully. Build number:"

ReportedBuildNumber(r) ==
    IF r.op = "run_job" THEN r.outcome.value[2] ELSE r.outcome.value.new_build_number

\* C19 as stated: the build number in the success result of run_job and of
\* rebuild is the number of the build that the call's own build_job started,
\* however the remote calls of other trigger calls on the job fall between
\* its own.
C19_ReportsTriggeredBuild ==
    \A i \in Callers :
        TriggerSucceeded(tr[i]) => ReportedBuildNumber(tr[i]) = tr[i].triggered

\* The builds other calls started on the job after call i started its own.
StartedSince(i) == {j \in Callers \ {i} : tr[j].triggered > tr[i].triggered}

\* C19: the build number in the success result of run_job and of rebuild is
\* the job's next build number, read after the call's build_job, minus one:
\* the number of the job's latest build at that read.  It is the number of
\* the build the call started exactly when no other call started a build of
\* the job between the call's build_job and its read of the job.
C19_ReportsLatestBuild ==
    [][\A i \in Callers :
          (tr[i].pc = "readback" /\ TriggerSucceeded(tr'[i]))
          => /\ ReportedBuildNumber(tr'[i]) = job.nextBuildNumber - 1
             /\ ReportedBuildNumber(tr'[i]) = job.lastBuild
             /\ ReportedBuildNumber(tr'[i]) = tr[i].triggered + Cardinality(StartedSince(i))
             /\ (ReportedBuildNumber(tr'[i]) = tr[i].triggered) <=> (StartedSince(i) = {})]_vars

\* The case that breaks it: a call that started build 1 reports build 2,
\* which another call started before the first one re-read the job metadata.
C19_ReportsOtherBuild ==
    \E i \in Callers, j \in Callers :
        /\ i # j
        /\ TriggerSucceeded(tr[i])
        /\ tr[i].triggered = 1
        /\ tr[j].triggered = 2
        /\ ReportedBuildNumber(tr[i]) = 2

\* A rebuild that passed the source build's parameters and reports its own build.
C19_WitnessOwn ==
    \E i \in Callers :
        /\ TriggerSucceeded(tr[i])
        /\ tr[i].op = "rebuild"
        /\ tr[i].passed.with
        /\ ReportedBuildNumber(tr[i]) = tr[i].triggered

\* With no other build started on the job between a call's build_job and its
\* get_job_info, the number is the call's own.
C19_AloneIsRight ==
    \A i \in Callers :
        (TriggerSucceeded(tr[i]) /\ \A j \in Callers \ {i} : tr[j].triggered = 0)
        => ReportedBuildNumber(tr[i]) = tr[i].triggered

----------------------------------------------------------------------------
(* Specification of get_build_parameters on a build with any actions list *)

\* The parameters lists of an action: empty, with a null entry, with an entry
\* without a name, with a null value, in another order, and with a repeated
\* name.
ParameterLists ==
    { <<>>,
      <<Parameter("A", "1"), Parameter("A", "2")>>,
      <<Parameter("A", "1"), NullParameter, Parameter("B", "2")>>,
      <<Parameter("A", "1"), Parameter(None, "x"), Parameter("B", "2")>>,
      <<Parameter("A", None), Parameter("B", "2")>>,
      <<Parameter("B", "2"), Parameter("A", "1")>> }

ActionEntries ==
    {NullAction, CauseAction,
     [null |-> FALSE, class |-> "org.acme.ExtraParametersAction",
      parameters |-> <<Parameter("C", "3")>>]}
    \cup {ParametersAction(params_list) : params_list \in ParameterLists}

ActionLists == UNION {[1 .. n -> ActionEntries] : n \in 0 .. MaxActions}

InitParameters ==
    /\ job \in JobInfos
    /\ build = RunningBuild
    /\ console = <<>>
    /\ actions \in ActionLists
    /\ w = WaitIdle
    /\ twin = WaitIdle
    /\ m = MonitorIdle
    /\ e = ErrorsIdle
    /\ jc = ConsoleIdle
    /\ bp = ParametersIdle
    /\ cb = CancelIdle
    /\ tr = TriggerIdle
    /\ ea = EnableIdle
    /\ mn = MainIdle
    /\ ro = ReadIdle

NextParameters ==
    \/ \E build_number \in {NoBuildNumber, 1} : get_build_parameters_enter(build_number)
    \/ \E resp \in ErrorsResponses : get_build_parameters_resolve(resp)
    \/ \E resp \in ErrorsResponses : get_build_parameters_info(resp)

SpecParameters == InitParameters /\ [][NextParameters]_vars

----------------------------------------------------------------------------
(* Claims about get_build_parameters, checked under SpecParameters *)

DenotesParameters(action) == ~action.null /\ is_parameters_action(action.class)

WellFormed(param) == ~param.null /\ param.name # None

\* The {name, value} pairs of the well-formed entries, in the order of the list.
PairsOf(params_list) ==
    LET kept == SelectSeq(params_list, WellFormed)
    IN  [x \in 1 .. Len(kept) |-> [name |-> kept[x].name, value |-> kept[x].value]]

ParametersReturned == bp.pc = "done" /\ bp.outcome.kind = "return"

\* C20: get_build_parameters returns, in the order of the source, exactly the
\* {name, value} pairs of the first entry of the actions list that is a
\* parameters action, without the null entries and the entries with no name
\* and with the entries whose value is null; the loop looks at no entry
\* after that action, and with no parameters action it returns an empty list.
C20_FirstParametersAction ==
    ParametersReturned =>
        LET action_list == bp.action_list
            found == {i \in 1 .. Len(action_list) : DenotesParameters(action_list[i])}
        IN  IF found = {}
            THEN /\ bp.outcome.value.parameters = <<>>
                 /\ bp.scanned = Len(action_list)
            ELSE LET first == CHOOSE i \in found : \A j \in found : i <= j
                 IN  /\ bp.outcome.value.parameters = PairsOf(action_list[first].parameters)
                     /\ bp.scanned = first

\* A null action, then a parameters action with a nameless entry, then another
\* parameters action: only the pairs of the first one are returned.
C20_Witness ==
    /\ ParametersReturned
    /\ bp.action_list =
           <<NullAction,
             ParametersAction(<<Parameter("A", "1"), Parameter(None, "x"), Parameter("B", "2")>>),
             ParametersAction(<<Parameter("B", "2"), Parameter("A", "1")>>)>>
    /\ bp.outcome.value.parameters = <<[name |-> "A", value |-> "1"], [name |-> "B", value |-> "2"]>>
    /\ bp.scanned = 2

\* A null value is kept and a null entry is skipped.
C20_WitnessNullValue ==
    /\ ParametersReturned
    /\ bp.action_list =
           <<ParametersAction(<<Parameter("A", None), Parameter("B", "2")>>),
             ParametersAction(<<Parameter("A", "1"), NullParameter, Parameter("B", "2")>>)>>
    /\ bp.outcome.value.parameters = <<[name |-> "A", value |-> None], [name |-> "B", value |-> "2"]>>

\* No parameters action: an empty list after the whole list was looked at.
C20_WitnessNone ==
    /\ ParametersReturned
    /\ bp.action_list = <<CauseAction, NullAction>>
    /\ bp.outcome.value.parameters = <<>>
    /\ bp.scanned = 2

----------------------------------------------------------------------------
(* Specification of rebuild and get_build_parameters on the same source     *)
(* build, with any actions list                                             *)

SourceBuild == 1

InitRebuild ==
    /\ job = [lastBuild |-> 1, nextBuildNumber |-> 2]
    /\ build = RunningBuild
    /\ console = <<>>
    /\ actions \in ActionLists
    /\ w = WaitIdle
    /\ twin = WaitIdle
    /\ m = MonitorIdle
    /\ e = ErrorsIdle
    /\ jc = ConsoleIdle
    /\ bp = ParametersIdle
    /\ cb = CancelIdle
    /\ tr = TriggerIdle
    /\ ea = EnableIdle
    /\ mn = MainIdle
    /\ ro = ReadIdle

NextRebuild ==
    \/ get_build_parameters_enter(SourceBuild)
    \/ \E resp \in ErrorsResponses : get_build_parameters_info(resp)
    \/ rebuild_enter(1, SourceBuild)
    \/ \E resp \in ErrorsResponses : rebuild_info(1, resp)
    \/ \E resp \in ErrorsResponses : trigger_build_job(1, resp)
    \/ \E resp \in ErrorsResponses : trigger_readback(1, resp)

SpecRebuild == InitRebuild /\ [][NextRebuild]_vars

----------------------------------------------------------------------------
(* Claims about rebuild, checked under SpecRebuild *)

\* The list of {name, value} pairs as a map from names to values, the last
\* pair of a name giving its value.
Collapsed(pairs) ==
    [x \in {pairs[k].name : k \in DOMAIN pairs} |->
        LET last == CHOOSE k \in DOMAIN pairs :
                        /\ pairs[k].name = x
                        /\ \A k2 \in DOMAIN pairs : pairs[k2].name = x => k2 <= k
        IN  pairs[last].value]

TimesCalled(remote_calls, call) ==
    Cardinality({k \in DOMAIN remote_calls : remote_calls[k] = call})

\* What build_job is called with for the map of parameters.
TriggeredWith(parameters) ==
    IF DOMAIN parameters = {} THEN NoParameters
    ELSE [with |-> TRUE, parameters |-> parameters]

\* C21: the parameters rebuild passes to build_job are the list that
\* get_build_parameters returns for the source build as a map from names to
\* values, the last value of a repeated name; rebuild calls build_job once,
\* with that map when it has a name and with no parameters when it has none,
\* and does not call build_job when get_build_info of the source build fails.
C21_RebuildPassesBuildParameters ==
    LET r == tr[1]
        called == TimesCalled(r.remote_calls, "build_job")
    IN  /\ called <= 1
        /\ (r.pc = "done" /\ r.remote_calls = <<"get_build_info">>) => called = 0
        /\ r.pc = "readback" => called = 1
        /\ TriggerSucceeded(r) => called = 1
        /\ (called = 1 /\ ParametersReturned)
            => r.passed = TriggeredWith(Collapsed(bp.outcome.value.parameters))
        /\ called = 1
            => r.passed = TriggeredWith(Collapsed(scan_actions(actions, 1).parameters))

\* A source build with a repeated name: get_build_parameters returns both
\* pairs and rebuild passes the second value.
C21_Witness ==
    /\ TriggerSucceeded(tr[1])
    /\ ParametersReturned
    /\ bp.outcome.value.parameters =
           <<[name |-> "A", value |-> "1"], [name |-> "A", value |-> "2"]>>
    /\ tr[1].passed.with
    /\ tr[1].passed.parameters["A"] = "2"

\* A source build with no named parameter: build_job without parameters.
C21_WitnessEmpty ==
    /\ TriggerSucceeded(tr[1])
    /\ ParametersReturned
    /\ Len(actions) = 2
    /\ DenotesParameters(actions[1])
    /\ bp.outcome.value.parameters = <<>>
    /\ ~tr[1].passed.with

\* The source build cannot be fetched: rebuild ends without build_job.
C21_WitnessNoTrigger ==
    /\ tr[1].pc = "done"
    /\ tr[1].outcome.kind = "error"
    /\ tr[1].remote_calls = <<"get_build_info">>
    /\ job.nextBuildNumber = 2

----------------------------------------------------------------------------
(* Specification of cancel_build on a build that can complete on the server *)
(* between any two remote calls of cancel_build                             *)

InitCancel ==
    /\ job \in JobInfos
    /\ build = RunningBuild
    /\ console = <<>>
    /\ actions = <<>>
    /\ w = WaitIdle
    /\ twin = WaitIdle
    /\ m = MonitorIdle
    /\ e = ErrorsIdle
    /\ jc = ConsoleIdle
    /\ bp = ParametersIdle
    /\ cb = CancelIdle
    /\ tr = TriggerIdle
    /\ ea = EnableIdle
    /\ mn = MainIdle
    /\ ro = ReadIdle

NextCancel ==
    \/ \E build_number \in BuildNumberArgs : cancel_build_enter(build_number)
    \/ \E resp \in Responses : cancel_build_resolve(resp)
    \/ \E resp \in Responses : cancel_build_status(resp)
    \/ \E resp \in Responses : cancel_build_stop(resp)
    \/ \E result \in Results : BuildCompletes(result, 7)

SpecCancel == InitCancel /\ [][NextCancel]_vars

----------------------------------------------------------------------------
(* Claims about cancel_build, checked under SpecCancel *)

CancelReturned == cb.pc = "done" /\ cb.outcome.kind = "return"

Aborts == TimesCalled(cb.remote_calls, "stop_build")

\* C22: cancel_build calls stop_build exactly when the build status it
\* fetched has no result.  With a result in the fetched status it calls no
\* stop_build and returns success = FALSE with that result in the message;
\* with none it calls stop_build once, for the resolved build number, and
\* returns success = TRUE when the call does not fail.
C22_AbortsExactlyRunningBuilds ==
    /\ [](Aborts <= 1)
    /\ []((CancelReturned /\ ~cb.outcome.value.success)
            => /\ Aborts = 0
               /\ cb.outcome.value.message = "Build already completed with result"
               /\ cb.outcome.value.result \in Results)
    /\ []((CancelReturned /\ cb.outcome.value.success)
            => /\ Aborts = 1
               /\ cb.outcome.value.build_number = cb.build_number
               /\ cb.build_number = IF cb.bn_arg # NoBuildNumber THEN cb.bn_arg
                                     ELSE cb.job_info.lastBuild)
    /\ [][(cb.pc = "status" /\ cb'.pc # "status")
            => /\ cb'.pc = "stop" => build.result = None
               /\ cb'.pc = "stop" => cb'.build_number = cb.build_number
               /\ (cb'.pc = "done" /\ cb'.outcome.kind = "return")
                  => /\ build.result # None
                     /\ ~cb'.outcome.value.success
                     /\ cb'.outcome.value.result = build.result
               /\ (cb'.pc = "done" /\ cb'.outcome.kind = "error")
                  => TimesCalled(cb'.remote_calls, "stop_build") = 0]_vars
    /\ [][(cb.pc = "stop" /\ cb'.pc = "done")
            => /\ cb'.remote_calls = Append(cb.remote_calls, "stop_build")
               /\ cb'.outcome.kind = "return" => cb'.outcome.value.success]_vars

\* A build that failed before the call: no abort, success = FALSE with FAILURE.
C22_Witness ==
    /\ CancelReturned
    /\ ~cb.outcome.value.success
    /\ cb.outcome.value.result = "FAILURE"
    /\ cb.remote_calls = <<"get_job_info", "get_build_info">>

\* A running build: one abort and success = TRUE.
C22_WitnessAborted ==
    /\ CancelReturned
    /\ cb.outcome.value.success
    /\ cb.remote_calls = <<"get_build_info", "stop_build">>
    /\ build.result = "ABORTED"

\* C28 as stated: whenever the build completes on the server, stop_build is
\* not called for a build that has a result at the moment of the call, and
\* success = TRUE is returned only for a build that had none at that moment.
C28_NeverAbortsCompletedBuild ==
    [][(cb.pc = "stop" /\ cb'.pc = "done") => build.result = None]_vars

\* C28: stop_build is called only straight after a get_build_info of the
\* same call that showed no result, and success = TRUE is returned only
\* after such a stop_build; the build can complete on the server between
\* the two calls, and then stop_build is called for a completed build.
C28_AbortsOnFetchedStatus ==
    /\ [][(cb.pc = "stop" /\ cb'.pc = "done")
            => /\ cb.remote_calls # <<>>
               /\ cb.remote_calls[Len(cb.remote_calls)] = "get_build_info"
               /\ cb.result = None]_vars
    /\ [][(cb.pc = "status" /\ cb'.pc = "stop") => build.result = None]_vars
    /\ []((CancelReturned /\ cb.outcome.value.success)
            => /\ Len(cb.remote_calls) >= 2
               /\ SubSeq(cb.remote_calls, Len(cb.remote_calls) - 1, Len(cb.remote_calls))
                      = <<"get_build_info", "stop_build">>
               /\ cb.result = None)

\* The build completed with SUCCESS after its status was fetched: stop_build
\* was called for it and cancel_build returned success = TRUE.
C28_Witness ==
    /\ CancelReturned
    /\ cb.outcome.value.success
    /\ build.result = "SUCCESS"

----------------------------------------------------------------------------
(* Specification of enable_all_jobs on any list of jobs *)

JobNames ==
    { <<"j">>, <<"f">>, <<"f", "/", "j">>, <<"f", "/", "f", "/", "j">>, <<"f", "f", "/", "j">> }

Colors == { <<"blue">>, <<"blue", "_disabled">>, <<"disabled">> }

JobEntries ==
    {[name |-> x, fullname |-> x, has_fullname |-> TRUE, color |-> c] :
        x \in JobNames, c \in Colors}
    \cup {[name |-> <<"j">>, fullname |-> <<>>, has_fullname |-> FALSE,
           color |-> <<"blue", "_disabled">>]}

\* The lists of jobs of a server: no two jobs have the same full name.
JobLists ==
    {job_list \in UNION {[1 .. n -> JobEntries] : n \in 0 .. MaxJobs} :
        \A i \in DOMAIN job_list, j \in DOMAIN job_list :
            i # j => job_fullname(job_list[i]) # job_fullname(job_list[j])}

FolderArgs ==
    { NoFolder, Folder(<<>>), Folder(<<"f">>), Folder(<<"/", "f", "/">>),
      Folder(<<"f", "/", "f">>), Folder(<<"/">>) }

EnableResponses ==
    { [kind |-> "ok", exc |-> NoException],
      [kind |-> "exc", exc |-> [cls |-> "JenkinsException", msg |-> {}]],
      [kind |-> "exc", exc |-> [cls |-> "Exception", msg |-> {"connection"}]] }

InitEnable ==
    /\ job = [lastBuild |-> 1, nextBuildNumber |-> 2]
    /\ build = RunningBuild
    /\ console = <<>>
    /\ actions = <<>>
    /\ w = WaitIdle
    /\ twin = WaitIdle
    /\ m = MonitorIdle
    /\ e = ErrorsIdle
    /\ jc = ConsoleIdle
    /\ bp = ParametersIdle
    /\ cb = CancelIdle
    /\ tr = TriggerIdle
    /\ \E job_list \in JobLists : ea = [EnableIdle EXCEPT !.jobs = job_list]
    /\ mn = MainIdle
    /\ ro = ReadIdle

NextEnable ==
    \/ \E folder \in FolderArgs, recursive \in BOOLEAN : enable_all_jobs_enter(folder, recursive)
    \/ \E resp \in ErrorsResponses, resps \in [1 .. Len(ea.jobs) -> EnableResponses] :
           enable_all_jobs_run(resp, resps)

SpecEnable == InitEnable /\ [][NextEnable]_vars

----------------------------------------------------------------------------
(* Claims about enable_all_jobs, checked under SpecEnable *)

\* The path without the '/' at its ends.
Stripped(path) ==
    LET inner == {i \in DOMAIN path : path[i] # "/"}
    IN  IF inner = {} THEN <<>>
        ELSE SubSeq(path, CHOOSE i \in inner : \A j \in inner : i <= j,
                          CHOOSE i \in inner : \A j \in inner : j <= i)

\* The folder rule for a job of the given full name, for a folder path that
\* counts as given.
FolderRule(fullname, path, recursive) ==
    LET prefix == Stripped(path) \o <<"/">>
        below == IsPrefix(prefix, fullname)
    IN  IF recursive THEN fullname = Stripped(path) \/ below
        ELSE below /\ \A i \in DOMAIN fullname : i > Len(prefix) => fullname[i] # "/"

NoFolderRule(fullname, recursive) ==
    recursive \/ \A i \in DOMAIN fullname : fullname[i] # "/"

FullNameOf(job_entry) == IF job_entry.has_fullname THEN job_entry.fullname ELSE job_entry.name

Disabled(job_entry) ==
    \/ job_entry.color = <<"disabled">>
    \/ job_entry.color # <<>> /\ job_entry.color[Len(job_entry.color)] = "_disabled"

\* The positions of the disabled jobs of the fetched list that pass the
\* folder rule; given says whether the folder of the call counts as given.
ToEnable(given) ==
    {i \in DOMAIN ea.all_jobs :
        /\ Disabled(ea.all_jobs[i])
        /\ IF given THEN FolderRule(FullNameOf(ea.all_jobs[i]), ea.folder.path, ea.recursive)
           ELSE NoFolderRule(FullNameOf(ea.all_jobs[i]), ea.recursive)}

Attempted == {ea.attempted[k] : k \in DOMAIN ea.attempted}

EnableReturned == ea.pc = "done" /\ ea.outcome.kind = "return"

\* enable_job is called for the jobs at the positions wanted and no other;
\* for all of them once when the call returns a result.
EnablesExactly(wanted) ==
    /\ Attempted \subseteq wanted
    /\ \A k \in DOMAIN ea.attempted, k2 \in DOMAIN ea.attempted :
           k < k2 => ea.attempted[k] < ea.attempted[k2]
    /\ EnableReturned => Attempted = wanted

C23_WitnessPrefix ==
    /\ EnableReturned
    /\ ea.folder = Folder(<<"f">>)
    /\ ea.recursive
    /\ Len(ea.all_jobs) = 2
    /\ ea.all_jobs[1].fullname = <<"f", "f", "/", "j">>
    /\ ea.all_jobs[2].fullname = <<"f">>
    /\ \A i \in 1 .. 2 : Disabled(ea.all_jobs[i])
    /\ ea.attempted = <<2>>

\* The full names of the jobs at the positions wanted for which enable_job
\* succeeded, in the order of the list of jobs.
RECURSIVE EnabledNames(_, _)
EnabledNames(wanted, i) ==
    IF i > Len(ea.all_jobs) THEN <<>>
    ELSE IF i \in wanted /\ ea.resps[i].kind = "ok"
         THEN <<FullNameOf(ea.all_jobs[i])>> \o EnabledNames(wanted, i + 1)
         ELSE EnabledNames(wanted, i + 1)

Wanted == ToEnable(ea.folder.given /\ ea.folder.path # <<>>)

BatchCompleted ==
    /\ ea.outcome.kind = "return"
    /\ Attempted = Wanted
    /\ ea.outcome.value.enabled_jobs = EnabledNames(Wanted, 1)
    /\ ea.outcome.value.count = Len(ea.outcome.value.enabled_jobs)

\* C24: when enable_job fails for a job, enable_all_jobs still calls
\* enable_job for every other disabled job of the filtered set and returns
\* count = len(enabled_jobs), enabled_jobs being the jobs for which
\* enable_job succeeded, in the order of the list of jobs.
C24_EnableFailureNotFatal ==
    (ea.pc = "done" /\ ea.fetched) => BatchCompleted

\* The same when every failure of enable_job is a jenkins.JenkinsException.
C24_JenkinsFailureNotFatal ==
    (/\ ea.pc = "done"
     /\ ea.fetched
     /\ \A i \in Wanted : ea.resps[i].kind = "exc" => ea.resps[i].exc.cls = "JenkinsException")
    => BatchCompleted

\* enable_job fails with a JenkinsException for the first of two disabled
\* jobs: the second is enabled and returned.
C24_SkippedAndContinued ==
    /\ EnableReturned
    /\ ea.attempted = <<1, 2>>
    /\ ea.resps[1].kind = "exc"
    /\ ea.outcome.value.count = 1
    /\ ea.outcome.value.enabled_jobs = <<FullNameOf(ea.all_jobs[2])>>

\* enable_job fails with another exception for the first of two disabled
\* jobs: the call fails and the second job is not tried.
C24_FatalFailure ==
    /\ ea.pc = "done"
    /\ ea.fetched
    /\ ea.outcome.kind = "error"
    /\ ea.outcome.err = "JenkinsApiError"
    /\ Wanted = {1, 2}
    /\ ea.attempted = <<1>>

\* The empty folder: every disabled job is enabled, as with no folder.
C23_EmptyFolderEnablesAll ==
    /\ EnableReturned
    /\ ea.folder = Folder(<<>>)
    /\ ea.recursive
    /\ Len(ea.all_jobs) = 2
    /\ ea.attempted = <<1, 2>>

----------------------------------------------------------------------------
(* Specification of one invocation of any tool function of main.py *)

FacadeOutcomes ==
    {[kind |-> "return", serializable |-> b, err |-> ""] : b \in BOOLEAN}
    \cup {[kind |-> "raise", serializable |-> FALSE, err |-> x] : x \in ErrorClasses}

\* JenkinsApi(): an instance, ValueError for missing credentials, or another
\* exception.
CreateOutcomes ==
    { [kind |-> "return", err |-> ""],
      [kind |-> "raise", err |-> "ValueError"],
      [kind |-> "raise", err |-> "Exception"] }

InitTools ==
    /\ job = [lastBuild |-> 1, nextBuildNumber |-> 2]
    /\ build = RunningBuild
    /\ console = <<>>
    /\ actions = <<>>
    /\ w = WaitIdle
    /\ twin = WaitIdle
    /\ m = MonitorIdle
    /\ e = ErrorsIdle
    /\ jc = ConsoleIdle
    /\ bp = ParametersIdle
    /\ cb = CancelIdle
    /\ tr = TriggerIdle
    /\ ea = EnableIdle
    /\ mn = MainIdle
    /\ ro = ReadIdle

NextTools ==
    \/ \E tool \in Tools, text \in JsonTexts :
           (~takes_json(tool) => text = "") /\ tool_enter(1, tool, text)
    \/ get_jenkins_api_check(1)
    \/ \E resp \in CreateOutcomes : get_jenkins_api_create(1, resp)
    \/ get_jenkins_api_return(1)
    \/ tool_parse(1)
    \/ \E outcome \in FacadeOutcomes : tool_call(1, outcome)

SpecTools == InitTools /\ [][NextTools]_vars

----------------------------------------------------------------------------
(* Claims about the tool functions, checked under SpecTools *)

ToolFinished == mn.th[1].pc = "done"

Malformed(text) == text \notin {"", "  "} /\ ~json_loads(text).ok

\* C25: every tool function of main.py returns a string, whatever the facade
\* operation or the creation of the client raises (ValueError, the build and
\* job not-found errors, the connection error, the API error or any other
\* exception): the string is made of the error.  Malformed JSON in
\* parameters or patterns gives a string saying so, with no call of a
\* facade operation.
C25_ToolsReturnStrings ==
    LET r == mn.th[1]
    IN  ToolFinished =>
            /\ r.result.kind = "str"
            /\ r.raised # "" => r.result.detail = r.raised /\ r.result.prefix # ""
            /\ (takes_json(r.tool) /\ r.api # 0 /\ Malformed(r.text))
               => /\ r.facade_calls = 0
                  /\ r.result.prefix \in {"Invalid JSON in parameters:",
                                         "Invalid JSON in patterns:"}
            /\ r.facade_calls <= 1

\* job-console has no clause for the Jenkins errors: a job-not-found error of
\* the facade is returned as the string of the last clause.
C25_Witness ==
    /\ ToolFinished
    /\ mn.th[1].tool = "job-console"
    /\ mn.th[1].raised = "JenkinsJobNotFoundError"
    /\ mn.th[1].result = String("Failed to get console output", "JenkinsJobNotFoundError")

\* Malformed parameters of run-job: a string and no call of run_job.
C25_WitnessMalformed ==
    /\ ToolFinished
    /\ mn.th[1].tool = "run-job"
    /\ mn.th[1].text = "{bad"
    /\ mn.th[1].facade_calls = 0
    /\ mn.th[1].result.prefix = "Invalid JSON in parameters:"

\* The creation of the client fails with ValueError in wait-for-build.
C25_WitnessCreation ==
    /\ ToolFinished
    /\ mn.th[1].tool = "wait-for-build"
    /\ mn.th[1].api = 0
    /\ mn.th[1].result = String("Invalid parameters:", "ValueError")

----------------------------------------------------------------------------
(* Specification of tool invocations that run at the same time and share    *)
(* the global client                                                        *)

NextSingleton ==
    \/ \E t \in Threads : tool_enter(t, "get-version", "")
    \/ \E t \in Threads : get_jenkins_api_check(t)
    \/ \E t \in Threads, resp \in CreateOutcomes : get_jenkins_api_create(t, resp)
    \/ \E t \in Threads : get_jenkins_api_return(t)
    \/ \E t \in Threads, outcome \in FacadeOutcomes : tool_call(t, outcome)

SpecSingleton == InitTools /\ [][NextSingleton]_vars

\* The same invocations one after the other: an invocation starts when no
\* other is running.
NoneRunning == \A t \in Threads : mn.th[t].pc \in {"idle", "done"}

NextOneByOne ==
    \/ \E t \in Threads : NoneRunning /\ tool_enter(t, "get-version", "")
    \/ \E t \in Threads : get_jenkins_api_check(t)
    \/ \E t \in Threads, resp \in CreateOutcomes : get_jenkins_api_create(t, resp)
    \/ \E t \in Threads : get_jenkins_api_return(t)
    \/ \E t \in Threads, outcome \in FacadeOutcomes : tool_call(t, outcome)

SpecOneByOne == InitTools /\ [][NextOneByOne]_vars

----------------------------------------------------------------------------
(* Claims about get_jenkins_api, checked under SpecSingleton *)

\* C30: get_jenkins_api creates the client at most once and every call
\* returns that instance, also when the first calls run at the same time;
\* a creation that fails leaves the global unset.
C30_OneSharedClient ==
    /\ mn.created <= 1
    /\ \A t \in Threads : mn.th[t].api \in {0, 1}
    /\ mn.created = 0 => mn.jenkins_api = 0

\* Two invocations both found the global unset: two clients were created.
C30_TwoClients ==
    /\ mn.created = 2
    /\ \A t \in 1 .. 2 : mn.th[t].pc = "done" /\ mn.th[t].api # 0

\* Two finished invocations that got different clients.
C30_DifferentClients ==
    /\ mn.th[1].pc = "done" /\ mn.th[2].pc = "done"
    /\ mn.th[1].api # 0 /\ mn.th[2].api # 0
    /\ mn.th[1].api # mn.th[2].api

\* A creation that failed, and a later invocation that created the client.
C30_RetriedAfterFailure ==
    /\ mn.th[1].pc = "done" /\ mn.th[1].api = 0 /\ mn.th[1].raised = "ValueError"
    /\ mn.th[2].pc = "done" /\ mn.th[2].api = 1
    /\ mn.created = 1

----------------------------------------------------------------------------
(* Specification of get_job_console on a console of any text *)

WindowArgs == (0 - 1) .. MaxWindow

InitConsole ==
    /\ job \in JobInfos
    /\ build = RunningBuild
    /\ console = <<>>
    /\ actions = <<>>
    /\ w = WaitIdle
    /\ twin = WaitIdle
    /\ m = MonitorIdle
    /\ e = ErrorsIdle
    /\ jc = ConsoleIdle
    /\ bp = ParametersIdle
    /\ cb = CancelIdle
    /\ tr = TriggerIdle
    /\ ea = EnableIdle
    /\ mn = MainIdle
    /\ ro = ReadIdle

NextConsole ==
    \/ \E piece \in Pieces : ConsoleGrows(piece)
    \/ \E b \in BuildNumberArgs, tail \in WindowArgs, head \in WindowArgs,
          tail_given \in BOOLEAN, head_given \in BOOLEAN,
          resp_job \in ErrorsResponses, resp_console \in ErrorsResponses :
            /\ (~tail_given => tail = 0)
            /\ (~head_given => head = 0)
            /\ get_job_console_call(b, tail, head, tail_given, head_given, resp_job, resp_console)

SpecConsole == InitConsole /\ [][NextConsole]_vars

----------------------------------------------------------------------------
(* Claims about argument validation and build-number resolution, checked    *)
(* under SpecFacade                                                         *)

\* C15: a call of wait_for_build with timeout <= 0 or poll_interval <= 0, and
\* a call of monitor_build with from_line < 0, has ended with a ValueError
\* (InvalidArgument) as soon as it was made: no job metadata, build status or
\* console fetch was issued, no time passed and nothing was slept or repeated.
C15_InvalidArgumentsRejectedFirst ==
    /\ (w.pc # "idle" /\ (w.timeout_arg <= 0 \/ w.poll_arg <= 0))
       => /\ w.pc = "done"
          /\ w.outcome.kind = "error"
          /\ w.outcome.err = "ValueError"
          /\ w.job_fetches = 0 /\ w.resolve_resp = NoResponse
          /\ w.fetches = 0 /\ w.last_resp = NoResponse
          /\ w.sleeps = <<>>
          /\ w.now = 0
    /\ (m.pc # "idle" /\ m.from_line < 0)
       => /\ m.pc = "done"
          /\ m.outcome.kind = "error"
          /\ m.outcome.err = "ValueError"
          /\ m.remote_calls = <<>>

\* wait_for_build with a valid timeout, poll_interval 0 and no build number:
\* rejected although the job's metadata would have been needed next.
C15_Witness ==
    /\ w.pc = "done"
    /\ w.timeout_arg = 2 /\ w.poll_arg = 0 /\ w.bn_arg = NoBuildNumber
    /\ w.outcome.err = "ValueError"
    /\ w.job_fetches = 0 /\ w.fetches = 0

\* monitor_build with from_line -1.
C15_WitnessMonitor ==
    /\ m.pc = "done"
    /\ m.from_line = 0 - 1 /\ m.bn_arg = NoBuildNumber
    /\ m.outcome.err = "ValueError"
    /\ m.remote_calls = <<>>

\* The error that build-number resolution is to end with, given what the job
\* metadata fetch answered: "" when resolution succeeds.
ExpectedResolutionError(resp, job_info) ==
    IF resp.kind = "exc"
    THEN IF resp.exc.cls = "JenkinsException" /\ "does not exist" \in resp.exc.msg
         THEN "JenkinsJobNotFoundError"
         ELSE IF resp.exc.cls = "JenkinsException"
                 /\ ("connection" \in resp.exc.msg \/ "timeout" \in resp.exc.msg)
         THEN "JenkinsConnectionError"
         ELSE "JenkinsApiError"
    ELSE IF job_info.lastBuild = 0 THEN "JenkinsBuildNotFoundError"
    ELSE ""

\* A finished call whose job metadata fetch answered resp ended as resolution
\* is to end.
ResolvedAsExpected(pc, resp, job_info, outcome) ==
    (pc = "done" /\ resp # NoResponse /\ ExpectedResolutionError(resp, job_info) # "")
    => (outcome.kind = "error" /\ outcome.err = ExpectedResolutionError(resp, job_info))

\* C17: in each of the six operations with an optional build number, a call
\* whose job metadata fetch fails ends with JobNotFound when the job does not
\* exist, ConnectionFailure on a connection or timeout condition and ApiError
\* on any other failure, and a call that finds no last build ends with
\* BuildNotFound.
C17_UniformResolutionFailures ==
    /\ ResolvedAsExpected(jc.pc, jc.resp_job, jc.job_info, jc.outcome)
    /\ ResolvedAsExpected(w.pc, w.resolve_resp, w.job_info, w.outcome)
    /\ ResolvedAsExpected(e.pc, e.resp_job, e.job_info, e.outcome)
    /\ ResolvedAsExpected(bp.pc, bp.resolve_resp, bp.job_info, bp.outcome)
    /\ ResolvedAsExpected(m.pc, m.resolve_resp, m.job_info, m.outcome)
    /\ ResolvedAsExpected(cb.pc, cb.resolve_resp, cb.job_info, cb.outcome)

\* The same for the four operations that raise typed errors themselves.
C17_RaisingOperations ==
    /\ ResolvedAsExpected(w.pc, w.resolve_resp, w.job_info, w.outcome)
    /\ ResolvedAsExpected(bp.pc, bp.resolve_resp, bp.job_info, bp.outcome)
    /\ ResolvedAsExpected(m.pc, m.resolve_resp, m.job_info, m.outcome)
    /\ ResolvedAsExpected(cb.pc, cb.resolve_resp, cb.job_info, cb.outcome)

\* get_build_errors and get_job_console alone.
C17_ErrorsOperation == ResolvedAsExpected(e.pc, e.resp_job, e.job_info, e.outcome)

C17_ConsoleOperation == ResolvedAsExpected(jc.pc, jc.resp_job, jc.job_info, jc.outcome)

\* The case that breaks it in get_build_errors: the job does not exist and the
\* call ends with JenkinsApiError.
C17_JobNotFoundLost ==
    /\ e.pc = "done"
    /\ e.bn_arg = NoBuildNumber
    /\ e.resp_job = [kind |-> "exc", exc |-> [cls |-> "JenkinsException", msg |-> {"job", "does not exist"}]]
    /\ e.outcome.kind = "error"
    /\ e.outcome.err = "JenkinsApiError"

JobFetches(calls) == Cardinality({i \in DOMAIN calls : calls[i] = "get_job_info"})

\* A call that got past its argument validation: with a build number given it
\* fetched no job metadata and works on that number; with none, it fetched the
\* metadata once and, where that named a last build, works on its number.
OptionalBuildNumber(active, bn_arg, resp, job_info, fetches, build_number) ==
    active =>
        IF bn_arg # NoBuildNumber
        THEN fetches = 0 /\ resp = NoResponse /\ build_number = bn_arg
        ELSE IF resp = NoResponse THEN fetches = 0
        ELSE /\ fetches = 1
             /\ (resp.kind = "ok" /\ job_info.lastBuild # 0) => build_number = job_info.lastBuild

\* The build number a result carries is the one the call worked on.
ReportsBuildNumber(outcome, build_number) ==
    outcome.kind = "return" => outcome.value.build_number = build_number

\* The step in which the job metadata is fetched records the job's last build
\* as it is in that step.
ReadsLastBuildNow(resp, resp_next, job_info_next, build_number_next) ==
    (resp = NoResponse /\ resp_next.kind = "ok")
    => /\ job_info_next.lastBuild = job.lastBuild
       /\ job.lastBuild # 0 => build_number_next = job.lastBuild

\* C18: in each of the six operations, a call with a build number makes no
\* job metadata fetch and works on and reports that number; a call without one
\* fetches the job metadata exactly once and works on and reports the number
\* of the last build the job has in the step of that fetch, whatever builds
\* the job starts later.
C18_BuildNumberResolution ==
    /\ [](/\ OptionalBuildNumber(jc.pc = "done", jc.bn_arg, jc.resp_job, jc.job_info,
                                  JobFetches(jc.remote_calls), jc.build_number)
          /\ OptionalBuildNumber(e.pc = "done", e.bn_arg, e.resp_job, e.job_info,
                                  JobFetches(e.remote_calls), e.build_number)
          /\ OptionalBuildNumber(w.pc # "idle" /\ w.outcome.err # "ValueError", w.bn_arg,
                                  w.resolve_resp, w.job_info, w.job_fetches, w.build_number)
          /\ OptionalBuildNumber(m.pc # "idle" /\ m.outcome.err # "ValueError", m.bn_arg,
                                  m.resolve_resp, m.job_info, JobFetches(m.remote_calls),
                                  m.build_number)
          /\ OptionalBuildNumber(bp.pc # "idle", bp.bn_arg, bp.resolve_resp, bp.job_info,
                                  JobFetches(bp.remote_calls), bp.build_number)
          /\ OptionalBuildNumber(cb.pc # "idle", cb.bn_arg, cb.resolve_resp, cb.job_info,
                                  JobFetches(cb.remote_calls), cb.build_number)
          /\ ReportsBuildNumber(w.outcome, w.build_number)
          /\ ReportsBuildNumber(m.outcome, m.build_number)
          /\ ReportsBuildNumber(bp.outcome, bp.build_number)
          /\ ReportsBuildNumber(cb.outcome, cb.build_number))
    /\ [][/\ ReadsLastBuildNow(jc.resp_job, jc.resp_job', jc.job_info', jc.build_number')
          /\ ReadsLastBuildNow(e.resp_job, e.resp_job', e.job_info', e.build_number')
          /\ ReadsLastBuildNow(w.resolve_resp, w.resolve_resp', w.job_info', w.build_number')
          /\ ReadsLastBuildNow(m.resolve_resp, m.resolve_resp', m.job_info', m.build_number')
          /\ ReadsLastBuildNow(bp.resolve_resp, bp.resolve_resp', bp.job_info', bp.build_number')
          /\ ReadsLastBuildNow(cb.resolve_resp, cb.resolve_resp', cb.job_info', cb.build_number')]_vars

\* cancel_build without a build number resolved build 1, the job has started
\* build 2 since, and the call reports the cancellation of build 1.
C18_Witness ==
    /\ cb.pc = "done"
    /\ cb.bn_arg = NoBuildNumber
    /\ cb.remote_calls = <<"get_job_info", "get_build_info", "stop_build">>
    /\ cb.job_info.lastBuild = 1
    /\ job.lastBuild = 2
    /\ cb.outcome.kind = "return"
    /\ cb.outcome.value.success
    /\ cb.outcome.value.build_number = 1

\* wait_for_build with build number 1 on a job whose last build is 2 returns
\* the result of build 1 without a job metadata fetch.
C18_WitnessGiven ==
    /\ w.pc = "done"
    /\ w.bn_arg = 1
    /\ job.lastBuild = 2
    /\ w.job_fetches = 0
    /\ w.fetches > 0
    /\ w.outcome.kind = "return"
    /\ w.outcome.value.build_number = 1

----------------------------------------------------------------------------
(* Claims about get_job_console, checked under SpecConsole *)

Min(a, b) == IF a <= b THEN a ELSE b

\* The call passed the validation and its console fetch answered with a text.
ConsoleTextFetched == jc.pc = "done" /\ jc.resp_console.kind = "ok"

\* C13: when the console text was fetched, and L is its number of lines: with
\* tail=N the call returns the last min(N, L) lines of the text, in order and
\* joined by line terminators; with head=N the first min(N, L) lines; with
\* neither the text as it is; it returns, whatever N > 0 is.
C13_WindowedConsole ==
    ConsoleTextFetched =>
        LET lines == splitlines(jc.text)
            L == Len(lines)
            n == Min(IF jc.tail_given THEN jc.tail ELSE jc.head, L)
        IN  /\ jc.outcome.kind = "return"
            /\ jc.tail_given => jc.outcome.value = join([i \in 1 .. n |-> lines[L - n + i]])
            /\ jc.head_given => jc.outcome.value = join([i \in 1 .. n |-> lines[i]])
            /\ (~jc.tail_given /\ ~jc.head_given) => jc.outcome.value = jc.text

\* tail=2 on a console of three lines returns the second and the third.
C13_Witness ==
    /\ ConsoleTextFetched
    /\ jc.tail_given /\ jc.tail = 2
    /\ splitlines(jc.text) = << <<"a">>, <<>>, <<"a">> >>
    /\ jc.outcome.kind = "return"
    /\ jc.outcome.value = <<"\n", "a">>

\* head=3 on a console of two lines returns both.
C13_WitnessLargeN ==
    /\ ConsoleTextFetched
    /\ jc.head_given /\ jc.head = 3
    /\ splitlines(jc.text) = << <<"a", "a">>, <<"a">> >>
    /\ jc.outcome.kind = "return"
    /\ jc.outcome.value = <<"a", "a", "\n", "a">>

\* C14: a call of get_job_console with both tail and head, whatever their
\* values, or with a tail or a head that is zero or negative, ends with a
\* ValueError (InvalidArgument) and has made no remote call.
C14_InvalidWindowRejectedFirst ==
    (/\ jc.pc = "done"
     /\ \/ jc.tail_given /\ jc.head_given
        \/ jc.tail_given /\ jc.tail <= 0
        \/ jc.head_given /\ jc.head <= 0)
    => /\ jc.outcome.kind = "error"
       /\ jc.outcome.err = "ValueError"
       /\ jc.remote_calls = <<>>
       /\ jc.resp_job = NoResponse
       /\ jc.resp_console = NoResponse

\* Both given, each of them valid alone, on a job whose metadata fetch would
\* have been needed: rejected with no remote call.
C14_Witness ==
    /\ jc.pc = "done"
    /\ jc.bn_arg = NoBuildNumber
    /\ jc.tail_given /\ jc.tail = 1
    /\ jc.head_given /\ jc.head = 2
    /\ jc.outcome.kind = "error"
    /\ jc.outcome.err = "ValueError"
    /\ jc.remote_calls = <<>>

\* A zero tail alone is rejected too.
C14_WitnessZero ==
    /\ jc.pc = "done"
    /\ jc.tail_given /\ jc.tail = 0 /\ ~jc.head_given
    /\ jc.outcome.err = "ValueError"
    /\ jc.remote_calls = <<>>

\* C16: a call of get_job_console without a build number on a job that has no
\* last build ends with the typed error JenkinsBuildNotFoundError, and no call
\* returns a string unless that string is the console text it fetched (a
\* failure is never handed back as a returned string).
C16_FailuresAreTyped ==
    jc.pc = "done" =>
        /\ (jc.bn_arg = NoBuildNumber /\ jc.resp_job.kind = "ok" /\ jc.job_info.lastBuild = 0)
           => (jc.outcome.kind = "error" /\ jc.outcome.err = "JenkinsBuildNotFoundError")
        /\ jc.outcome.kind = "return" => ConsoleTextFetched

\* The case that breaks it: no build number, no last build, and the call
\* returns the string "No builds found for job".
C16_BareString ==
    /\ jc.pc = "done"
    /\ jc.bn_arg = NoBuildNumber /\ jc.resp_job.kind = "ok" /\ jc.job_info.lastBuild = 0
    /\ jc.remote_calls = <<"get_job_info">>
    /\ jc.outcome.kind = "return"
    /\ jc.outcome.value = <<"No builds found for job">>

----------------------------------------------------------------------------
(* Claims about monitor_build, checked under SpecMonitor *)

\* C1: while every call passes the next_line of the call before as from_line
\* (0 at first) and the console only grows, the lines handed out so far are
\* exactly lines [0, next_line) of the console, each once and in order: no
\* line is delivered twice, none is skipped.
C1_NoGapNoDuplicate ==
    m.chained =>
        /\ m.cursor <= Len(splitlines(console))
        /\ m.delivered = SubSeq(splitlines(console), 1, m.cursor)
        /\ (m.pc = "done" /\ m.outcome.kind = "return") => m.outcome.value.next_line = m.cursor

\* Two chained calls that both returned, the second one handing out lines that
\* were appended after the first.
C1_Witness ==
    /\ m.chained
    /\ m.calls = 2
    /\ m.pc = "done"
    /\ m.outcome.kind = "return"
    /\ m.from_line > 0
    /\ m.output_lines # <<>>
    /\ Len(m.delivered) > Len(m.output_lines)

\* C2: a call that returns has next_line = the number of lines of the console
\* text it fetched; its output is empty when from_line >= that number and
\* otherwise lines [from_line, total_lines) in order, joined by "\n"; building
\* and result are those of the build status fetched in the same call.
C2_SingleCallSnapshot ==
    /\ [][(m.pc = "console" /\ m'.pc = "done" /\ m'.outcome.kind = "return") =>
            LET lines == splitlines(console)
                total_lines == Len(lines)
                value == m'.outcome.value
            IN  /\ value.next_line = total_lines
                /\ m.from_line >= total_lines => (value.output = <<>> /\ m'.output_lines = <<>>)
                /\ m.from_line < total_lines =>
                      /\ Len(m'.output_lines) = total_lines - m.from_line
                      /\ \A i \in 1 .. (total_lines - m.from_line) :
                            m'.output_lines[i] = lines[m.from_line + i]
                      /\ value.output = join(SubSeq(lines, m.from_line + 1, total_lines))
                /\ value.building = m.building
                /\ value.result = m.result]_vars
    /\ [][(m.pc = "status" /\ m'.pc = "console") =>
            (m'.result = build.result /\ m'.building = build.building)]_vars
    /\ [][(m.pc # "console" /\ m'.pc = "console") => m.pc = "status"]_vars

\* A call from the middle of a three-line console that returned the last two
\* lines, with the status of a build that was still running when it was fetched
\* and has finished since.
C2_Witness ==
    /\ m.pc = "done"
    /\ m.outcome.kind = "return"
    /\ m.from_line = 1
    /\ m.outcome.value.next_line = 3
    /\ Len(m.output_lines) = 2
    /\ m.outcome.value.building
    /\ build.result # None

----------------------------------------------------------------------------
(* Claims about get_build_errors, checked under SpecErrors *)

ErrorsReturned == e.pc = "done" /\ e.outcome.kind = "return"

\* The pattern set of the call, in priority order, and its (category index,
\* pattern index) pairs.
UsedPatterns == compiled_patterns(pattern_dict(IF e.patterns_given THEN e.patterns ELSE <<>>))

PatternPairs == {p \in (DOMAIN UsedPatterns) \X (1 .. 4) : p[2] \in DOMAIN UsedPatterns[p[1]].patterns}

PairLeq(p, q) == p[1] < q[1] \/ (p[1] = q[1] /\ p[2] <= q[2])

MatchingPairs(line) == {p \in PatternPairs : search(UsedPatterns[p[1]].patterns[p[2]], line)}

FirstPair(line) == CHOOSE p \in MatchingPairs(line) : \A q \in MatchingPairs(line) : PairLeq(p, q)

LastPair == <<Len(UsedPatterns), Len(UsedPatterns[Len(UsedPatterns)].patterns)>>

\* The patterns tried up to and including pair p, in the order of the set.
RECURSIVE TriedUpTo(_, _)
TriedUpTo(p, c) ==
    IF c > p[1] THEN <<>>
    ELSE IF c = p[1] THEN SubSeq(UsedPatterns[c].patterns, 1, p[2])
    ELSE UsedPatterns[c].patterns \o TriedUpTo(p, c + 1)

\* C9: every console line yields at most one entry: the line is recorded, with
\* its 1-based number and its text, under the category of the first matching
\* pattern in priority order (categories in order, patterns in list order); no
\* pattern after that one is evaluated for the line; a line that matches no
\* pattern yields no entry; entries come in increasing line-number order.
C9_FirstMatchWins ==
    ErrorsReturned =>
        LET lines == splitlines(console)
            errors == e.outcome.value.errors
        IN  /\ \A k \in DOMAIN errors :
                  /\ errors[k].line_number \in DOMAIN lines
                  /\ errors[k].line = lines[errors[k].line_number]
                  /\ MatchingPairs(errors[k].line) # {}
                  /\ errors[k].category = UsedPatterns[FirstPair(errors[k].line)[1]].category
            /\ \A i \in DOMAIN lines :
                  Cardinality({k \in DOMAIN errors : errors[k].line_number = i})
                      = IF MatchingPairs(lines[i]) = {} THEN 0 ELSE 1
            /\ \A k \in DOMAIN errors :
                  k < Len(errors) => errors[k].line_number < errors[k + 1].line_number
            /\ Len(e.evaluated) = Len(lines)
            /\ \A i \in DOMAIN lines :
                  e.evaluated[i] = IF MatchingPairs(lines[i]) = {}
                                   THEN TriedUpTo(LastPair, 1)
                                   ELSE TriedUpTo(FirstPair(lines[i]), 1)

\* A log whose second line matches patterns of two default categories and is
\* recorded once, under the earlier one.
C9_Witness ==
    /\ ErrorsReturned
    /\ ~e.patterns_given
    /\ Len(splitlines(console)) = 2
    /\ Cardinality({p[1] : p \in MatchingPairs(splitlines(console)[2])}) = 2
    /\ Len(e.outcome.value.errors) = 1
    /\ e.outcome.value.errors[1].line_number = 2
    /\ e.outcome.value.errors[1].category = "exception"

RECURSIVE SumOver(_, _)
SumOver(f, S) ==
    IF S = {} THEN 0
    ELSE LET x == CHOOSE y \in S : TRUE IN f[x] + SumOver(f, S \ {x})

\* C10: in every result, summary[c] is the number of entries of errors with
\* category c for every key c, no key has count 0, every category of an entry
\* is a key, and the counts add up to len(errors).
C10_SummaryCountsErrors ==
    ErrorsReturned =>
        LET errors == e.outcome.value.errors
            summary == e.outcome.value.summary
        IN  /\ \A c \in DOMAIN summary :
                  /\ summary[c] = Cardinality({k \in DOMAIN errors : errors[k].category = c})
                  /\ summary[c] # 0
            /\ \A k \in DOMAIN errors : errors[k].category \in DOMAIN summary
            /\ SumOver(summary, DOMAIN summary) = Len(errors)

\* A result with two entries of one category.
C10_Witness ==
    /\ ErrorsReturned
    /\ Len(e.outcome.value.errors) = 2
    /\ DOMAIN e.outcome.value.summary = {"error"}
    /\ e.outcome.value.summary["error"] = 2

\* The built-in categories in their priority order, and the built-in patterns
\* in the order that priority gives.
DefaultPriority == <<"error", "exception", "failure", "jenkins">>

PatternsOf(category) ==
    LET c == CHOOSE i \in DOMAIN DEFAULT_ERROR_PATTERNS : DEFAULT_ERROR_PATTERNS[i].category = category
    IN  DEFAULT_ERROR_PATTERNS[c].patterns

DefaultsInPriority ==
    PatternsOf("error") \o PatternsOf("exception") \o PatternsOf("failure") \o PatternsOf("jenkins")

SeqRange(s) == {s[i] : i \in DOMAIN s}

C11_WitnessDefaults ==
    /\ ErrorsReturned
    /\ e.patterns_given
    /\ e.patterns = <<>>
    /\ Len(e.outcome.value.errors) = 1
    /\ e.outcome.value.errors[1].category = "failure"
    /\ Len(e.evaluated[1]) = 7

\* The console text of the build was fetched: the build number was given or
\* the job metadata named a last build, and the console fetch did not raise.
ConsoleFetched ==
    /\ e.bn_arg # NoBuildNumber \/ (e.resp_job.kind = "ok" /\ job.lastBuild # 0)
    /\ e.resp_console.kind = "ok"

\* C12: get_build_errors fails (with BuildNotFound or ApiError) exactly when
\* the retrieval of the console failed; when the console text was fetched it
\* returns a result, whatever the log lines say.
C12_OnlyRetrievalFailureConverts ==
    e.pc = "done" =>
        IF ConsoleFetched
        THEN e.outcome.kind = "return"
        ELSE /\ e.outcome.kind = "error"
             /\ e.outcome.err \in {"JenkinsBuildNotFoundError", "JenkinsApiError"}

\* The case that breaks it: a fetched log with the words "Jenkins error" in
\* its second line, answered with JenkinsApiError.
C12_LogWordsRaise ==
    /\ e.pc = "done"
    /\ ConsoleFetched
    /\ console = <<"ok", "\n", "Jenkins error">>
    /\ e.outcome = Raise("JenkinsApiError", "console_output")

----------------------------------------------------------------------------
(* Claims about wait_for_build, checked under SpecWait *)

TimeoutError == Raise("JenkinsApiError", "Timeout waiting for build")

LoopStarted == w.build_number # 0

\* C3: wait_for_build returns a value only when a build-status fetch showed a
\* present result; it returns in that very step (no further fetch or sleep)
\* with the result, duration and url of the build status fetched and the
\* resolved build number; every result value, SUCCESS or not, is a return and
\* never an error of the wait.
C3_ReturnsOnPresentResult ==
    /\ [](w.outcome.kind = "return" =>
            /\ w.pc = "done"
            /\ w.fetches >= 1
            /\ w.last_resp.kind = "ok"
            /\ build.result \in Results
            /\ w.outcome.value = [build_number |-> IF w.bn_arg # 0 THEN w.bn_arg ELSE job.lastBuild,
                                  result |-> build.result,
                                  duration |-> build.duration,
                                  url |-> build.url])
    /\ [][(w.pc = "fetch" /\ w'.fetches = w.fetches + 1 /\ w'.last_resp.kind = "ok"
             /\ build.result # None)
            => (w'.pc = "done" /\ w'.outcome.kind = "return" /\ w'.sleeps = w.sleeps)]_vars
    /\ [][(w.outcome.kind # "return" /\ w'.outcome.kind = "return")
            => (w.pc = "fetch" /\ w'.fetches = w.fetches + 1 /\ w'.sleeps = w.sleeps)]_vars

\* A wait that polled a running build, slept, and then returned a FAILURE result.
C3_Witness ==
    /\ w.outcome.kind = "return"
    /\ w.outcome.value.result = "FAILURE"
    /\ w.outcome.value.duration = 7
    /\ w.fetches = 2
    /\ Len(w.sleeps) = 1

\* C4: every loop iteration starts with the deadline check: when the time
\* elapsed since the loop started is >= timeout the wait fails with the
\* Timeout error without another fetch or sleep; a fetch is only reached
\* through a check that found elapsed < timeout; elapsed is wall-clock time
\* since loop start, so it includes the time spent inside the status calls.
C4_DeadlineCheckedFirst ==
    /\ [][(w.pc = "check" /\ w.now - w.start_time >= w.timeout /\ w' # w)
            => (w'.pc = "done" /\ w'.outcome = TimeoutError
                /\ w'.fetches = w.fetches /\ w'.sleeps = w.sleeps /\ w'.now = w.now)]_vars
    /\ [][(w.pc # "fetch" /\ w'.pc = "fetch")
            => (w.pc = "check" /\ w.now - w.start_time < w.timeout)]_vars
    /\ [][(w.pc = "sleep" /\ w' # w) => w'.pc = "check"]_vars
    /\ [](w.outcome = TimeoutError => w.now - w.start_time >= w.timeout)
    /\ [](LoopStarted => w.now - w.start_time = w.call_time + w.sleep_time)

\* A wait that timed out although the sleeps alone stayed below the timeout:
\* the time inside the status calls used up the budget.
C4_Witness ==
    /\ w.outcome = TimeoutError
    /\ w.call_time > 0
    /\ SumSeq(w.sleeps) < w.timeout
    /\ w.sleep_time < w.timeout

Behaviour(r) == [r EXCEPT !.poll_arg = 0]

\* C6: a call with poll_interval > timeout runs exactly like the call with
\* poll_interval = timeout given the same responses and delays: same place,
\* same clock, same fetches, same sleeps (each of length timeout), same outcome.
C6_ClampEquivalence ==
    (w.pc # "idle" /\ w.timeout_arg > 0 /\ w.poll_arg > w.timeout_arg) =>
        /\ twin.poll_arg = w.timeout_arg
        /\ Behaviour(w) = Behaviour(twin)
        /\ \A i \in DOMAIN w.sleeps : w.sleeps[i] = w.timeout_arg

\* A clamped call that fetched, slept once and ended.
C6_Witness ==
    /\ w.poll_arg > w.timeout_arg
    /\ w.timeout_arg > 1
    /\ Len(w.sleeps) = 1
    /\ w.pc = "done"
    /\ twin.pc = "done"

\* C7: called without a build number on a job that has no last build, the
\* wait fails with BuildNotFound at once: no status fetch, no sleep.
C7_NoBuildsFailsAtOnce ==
    (w.bn_arg = NoBuildNumber /\ w.resolve_resp.kind = "ok" /\ job.lastBuild = 0) =>
        /\ w.pc = "done"
        /\ w.outcome = Raise("JenkinsBuildNotFoundError", "No builds found for job")
        /\ w.fetches = 0
        /\ w.sleeps = <<>>
        /\ w.sleep_time = 0

C7_Witness ==
    /\ w.bn_arg = NoBuildNumber
    /\ w.resolve_resp.kind = "ok"
    /\ job.lastBuild = 0
    /\ w.outcome.err = "JenkinsBuildNotFoundError"

\* The error class the claim gives for an exception of the status fetch.
C8_ExpectedError(exc) ==
    IF exc.cls = "JenkinsException" /\ ("does not exist" \in exc.msg \/ "not found" \in exc.msg)
    THEN "JenkinsBuildNotFoundError"
    ELSE IF exc.cls = "JenkinsException" /\ ("connection" \in exc.msg \/ "timeout" \in exc.msg)
         THEN "JenkinsConnectionError"
         ELSE "JenkinsApiError"

\* C8: the loop sleeps and polls again only after a status fetch that
\* succeeded with result absent; an exception of a status fetch ends the wait
\* in that step with a typed error (not found -> BuildNotFound,
\* connection/timeout -> ConnectionFailure, else ApiError), and a wait that
\* has ended never does anything again.
C8_OnlyRunningIsRetried ==
    /\ [][(w.pc # "sleep" /\ w'.pc = "sleep")
            => (w.pc = "fetch" /\ w'.last_resp.kind = "ok" /\ build.result = None)]_vars
    /\ [][(w.pc = "fetch" /\ w'.fetches = w.fetches + 1 /\ w'.last_resp.kind = "exc")
            => (w'.pc = "done" /\ w'.outcome.kind = "error"
                /\ w'.outcome.err = C8_ExpectedError(w'.last_resp.exc)
                /\ w'.sleeps = w.sleeps)]_vars
    /\ [][w.pc = "done" => w' = w]_vars

\* A wait that polled once, slept, and was ended by a "not found" exception
\* of the second status fetch.
C8_Witness ==
    /\ w.pc = "done"
    /\ w.fetches = 2
    /\ w.last_resp.kind = "exc"
    /\ w.last_resp.exc.msg = {"not found"}
    /\ w.outcome.err = "JenkinsBuildNotFoundError"


Ceiling(a, b) == (a + b - 1) \div b

WaitStarted == w.pc \notin {"idle", "done"}

\* C26: wait_for_build always terminates.  Every time.sleep advances the
\* clock by at least poll_interval and every remote call answers, so a call
\* that has started ends (returns or raises), and by then it has checked the
\* build status at most ceil(timeout / poll_interval) times, also when the
\* build never gets a result.
C26_TerminatesWithinBound ==
    /\ [](w.build_number # 0 =>
            /\ w.fetches <= Ceiling(w.timeout, w.poll_arg)
            /\ w.fetches <= Ceiling(w.timeout, w.poll_interval))
    /\ [](w.pc \in {"idle", "resolve"} => w.fetches = 0)
    /\ [][(w.pc = "sleep" /\ w'.pc # "sleep") => w'.now >= w.now + w.poll_interval]_vars
    /\ (WaitStarted ~> w.pc = "done")

\* A wait that checked a build that never got a result as often as the bound
\* allows, more than once, and then timed out.
C26_Witness ==
    /\ w.pc = "done"
    /\ w.outcome = TimeoutError
    /\ build.result = None
    /\ w.fetches = Ceiling(w.timeout, w.poll_arg)
    /\ w.fetches >= 2

\* A wait with poll_interval greater than timeout: one check, then the timeout.
C26_WitnessClamped ==
    /\ w.pc = "done"
    /\ w.outcome = TimeoutError
    /\ w.poll_arg > w.timeout
    /\ w.fetches = 1
    /\ Len(w.sleeps) = 1


----------------------------------------------------------------------------
(* The last call of a monitor_build polling loop, checked under SpecMonitor *)

MonitorReturned == m.pc = "done" /\ m.outcome.kind = "return"

ReportsResult == MonitorReturned /\ m.outcome.value.result # None

\* C27: monitor_build fetches the build status before the console text, and
\* the console of a finished build is frozen.  So a call that reports a present
\* result has next_line = the number of lines of the final console; the build
\* is finished and the console stays as it is from then on; a later call with
\* from_line = that next_line returns empty output and the same next_line; and
\* a caller that chained its calls from line 0 until a result was reported has
\* received the lines of the final console, each once and in order.
C27_TerminalCallReachesEnd ==
    /\ [](ReportsResult =>
            /\ build.result # None
            /\ m.outcome.value.next_line = Len(splitlines(console))
            /\ m.chained => m.delivered = splitlines(console))
    /\ [][build.result # None => (console' = console /\ build' = build)]_vars
    /\ [][(m.pc # "console" /\ m'.pc = "console") =>
            (m.pc = "status" /\ ~contains(m'.remote_calls, "get_build_console_output"))]_vars
    /\ [][(ReportsResult /\ m'.calls = m.calls + 1 /\ m'.from_line = m.outcome.value.next_line) =>
            (m'.from_line = Len(splitlines(console')) /\ build'.result # None)]_vars
    /\ [][(m.pc = "console" /\ m'.pc = "done" /\ m'.outcome.kind = "return"
             /\ build.result # None /\ m.from_line = Len(splitlines(console))) =>
            /\ m'.output_lines = <<>>
            /\ m'.outcome.value.output = <<>>
            /\ m'.outcome.value.next_line = m.from_line]_vars

\* A caller that polled a running build, got two lines, polled again after the
\* build had finished and a third line had appeared, and got that line with
\* the result: it holds the whole final console.
C27_Witness ==
    /\ ReportsResult
    /\ m.chained
    /\ m.calls = 2
    /\ m.from_line = 2
    /\ Len(m.output_lines) = 1
    /\ m.outcome.value.next_line = 3
    /\ m.delivered = splitlines(console)

\* A call made after a finished build's last line was handed out: from_line is
\* the final length and the output is empty.
C27_WitnessLaterCall ==
    /\ ReportsResult
    /\ m.chained
    /\ m.calls = 2
    /\ m.from_line = Len(splitlines(console))
    /\ m.from_line > 0
    /\ m.output_lines = <<>>


----------------------------------------------------------------------------
(* Specification of the operations that only read, called one after the     *)
(* other against a server that goes on working                              *)

\* What get_job_info and get_all_jobs can raise, a refused permission included.
ReadResponses ==
    Responses \cup {[kind |-> "exc", exc |-> [cls |-> "JenkinsException", msg |-> {"permission"}]]}

\* No operation is under way, monitor_build and the two listing calls apart.
NoOtherRunning == w.pc = "idle" /\ e.pc = "idle" /\ jc.pc = "idle" /\ bp.pc = "idle"

NoneStarted == NoOtherRunning /\ m.pc = "idle" /\ ro.pc = "idle"

InitReadOnly ==
    /\ job \in JobInfos
    /\ build = RunningBuild
    /\ console = <<"a", "\n", "a">>
    /\ actions = <<CauseAction, ParametersAction(<<Parameter("A", "1")>>)>>
    /\ w = WaitIdle
    /\ twin = WaitIdle
    /\ m = MonitorIdle
    /\ e = ErrorsIdle
    /\ jc = ConsoleIdle
    /\ bp = ParametersIdle
    /\ cb = CancelIdle
    /\ tr = TriggerIdle
    /\ ea = [EnableIdle EXCEPT !.jobs = <<[name |-> <<"j">>, fullname |-> <<"f", "/", "j">>,
                                           has_fullname |-> TRUE,
                                           color |-> <<"blue", "_disabled">>]>>]
    /\ mn = MainIdle
    /\ ro = ReadIdle

NextReadOnly ==
    \/ NoneStarted /\ \E to \in TimeoutArgs, po \in PollArgs, b \in BuildNumberArgs :
                        wait_for_build_enter(to, po, b)
    \/ \E resp \in Responses, d \in 0 .. MaxDelay : wait_for_build_resolve(resp, d)
    \/ wait_for_build_check
    \/ \E resp \in Responses, d \in 0 .. MaxDelay : wait_for_build_fetch(resp, d)
    \/ \E x \in 0 .. MaxOversleep : wait_for_build_sleep(x)
    \/ (NoOtherRunning /\ ro.pc = "idle") /\ \E f \in FromLineArgs, b \in BuildNumberArgs :
                        monitor_build_enter(f, b)
    \/ \E resp \in Responses : monitor_build_resolve(resp)
    \/ \E resp \in Responses : monitor_build_status(resp)
    \/ \E resp \in Responses : monitor_build_console(resp)
    \/ NoneStarted /\ \E b \in BuildNumberArgs, resp_job \in Responses, resp_console \in Responses :
                        get_build_errors(b, <<>>, FALSE, resp_job, resp_console)
    \/ NoneStarted /\ \E b \in BuildNumberArgs, resp_job \in Responses, resp_console \in Responses :
                        get_job_console_call(b, 0, 0, FALSE, FALSE, resp_job, resp_console)
    \/ NoneStarted /\ \E b \in BuildNumberArgs : get_build_parameters_enter(b)
    \/ \E resp \in Responses : get_build_parameters_resolve(resp)
    \/ \E resp \in Responses : get_build_parameters_info(resp)
    \/ (NoOtherRunning /\ m.pc = "idle") /\ \E resp \in ReadResponses : get_job_details(resp)
    \/ (NoOtherRunning /\ m.pc = "idle") /\ \E resp \in ReadResponses : get_all_jobs_list(resp)
    \/ JobStartsBuild
    \/ \E r \in Results : BuildCompletes(r, 7)

SpecReadOnly == InitReadOnly /\ [][NextReadOnly]_vars

----------------------------------------------------------------------------
(* Claims about the operations that only read, checked under SpecReadOnly *)

\* The remote calls that ask the server for information.
Queries == {"get_job_info", "get_build_info", "get_build_console_output", "get_all_jobs"}

OnlyQueries(remote_calls) == \A i \in DOMAIN remote_calls : remote_calls[i] \in Queries

\* The state of the server: the job, its build, the build's console and
\* actions, and the list of jobs.
RemoteState == <<job, build, console, actions, ea.jobs>>

ReadOperations == <<w, m, e, jc, bp, ro.calls>>

\* The fields of a monitor_build call that the facade fills in; the cursor
\* fields are the caller's.
FacadeSide(r) ==
    [pc |-> r.pc, from_line |-> r.from_line, bn_arg |-> r.bn_arg,
     build_number |-> r.build_number, result |-> r.result, building |-> r.building,
     output_lines |-> r.output_lines, remote_calls |-> r.remote_calls,
     resolve_resp |-> r.resolve_resp, job_info |-> r.job_info, outcome |-> r.outcome.kind]

\* C29: get_job_details, get_job_console, monitor_build, wait_for_build,
\* get_build_errors, get_build_parameters and get_all_jobs_list only ask the
\* server for information, on every path: the remote calls they make are
\* queries, never build_job, enable_job, disable_job or stop_build; no step of
\* theirs changes the state of the server; and a call starts from nothing the
\* call before left behind.
C29_ReadOperationsOnlyRead ==
    /\ [](/\ OnlyQueries(m.remote_calls) /\ OnlyQueries(e.remote_calls)
          /\ OnlyQueries(jc.remote_calls) /\ OnlyQueries(bp.remote_calls)
          /\ OnlyQueries(ro.remote_calls))
    /\ [][ReadOperations' # ReadOperations => RemoteState' = RemoteState]_vars
    /\ [][m'.calls = m.calls + 1 =>
            FacadeSide(m') = FacadeSide(MonitorEnter(MonitorIdle, m'.from_line, m'.bn_arg))]_vars
    /\ [][ro'.calls = ro.calls + 1 =>
            /\ Len(ro'.remote_calls) = 1
            /\ (ro'.op = "get_job_details" /\ ro'.outcome.kind = "return") =>
                   (ro'.remote_calls = <<"get_job_info">> /\ ro'.outcome.value = job)
            /\ (ro'.op = "get_all_jobs_list" /\ ro'.outcome.kind = "return") =>
                   (ro'.remote_calls = <<"get_all_jobs">> /\ ro'.outcome.value = ea.jobs)]_vars

\* monitor_build called twice, the second call returning the result of a
\* build that finished meanwhile, after the job started another build: the
\* server is as its own steps left it.
C29_Witness ==
    /\ m.calls = 2
    /\ m.pc = "done"
    /\ m.outcome.kind = "return"
    /\ m.outcome.value.result = "FAILURE"
    /\ Len(m.remote_calls) = 3
    /\ job.lastBuild = 2
    /\ console = <<"a", "\n", "a">>

\* get_job_details that returned and then get_all_jobs_list that failed.
C29_WitnessListing ==
    /\ ro.calls = 2
    /\ ro.op = "get_all_jobs_list"
    /\ ro.outcome.kind = "error"
    /\ ro.outcome.msg = "Permission error"

\* wait_for_build that polled twice and timed out.
C29_WitnessWait ==
    /\ w.pc = "done"
    /\ w.outcome = TimeoutError
    /\ w.fetches = 2
    /\ build.result = None

\* get_build_parameters, get_job_console and get_build_errors each at the end
\* of a call that failed.
C29_WitnessParameters == bp.pc = "done" /\ bp.outcome.kind = "error" /\ Len(bp.remote_calls) = 2

C29_WitnessConsole == jc.pc = "done" /\ Len(jc.remote_calls) = 2

C29_WitnessErrors == e.pc = "done" /\ Len(e.remote_calls) = 2

====
